---- MODULE Spec2Model ----
(***************************************************************************)
(* Model of the GrapheneOS flashing engine                                 *)
(*   backend/py-service/app/utils/grapheneos/flash_engine.py               *)
(*   backend/py-service/app/utils/grapheneos/flash_transport.py            *)
(*   backend/py-service/app/utils/grapheneos/flash_build_manager.py        *)
(* One run of GrapheneOSFlashEngine.execute_flash is a sequential process; *)
(* every action is the code between two transport calls.  The transport's  *)
(* answers are nondeterministic.  cmds and progress_log are histories of   *)
(* the transport calls issued and of the FlashProgress values recorded.    *)
(* Further specifications of the module share the variables:               *)
(*   WaitSpec     the polling loops of the transport, in seconds           *)
(*   FairSpec     the runs and the polling loops under fairness            *)
(*   PlanSpec     find_partition_files applied to a bundle directory       *)
(*   CliSpec      flash_cli.main: a run, then the exit of the process      *)
(*   FlasherSpec  backend/flasher.py main: the detection of the device     *)
(*   JobSpec      utils/flash.py: a job, its script, cancel_flash_job and  *)
(*                a subscriber of the job's log stream                     *)
(*   PairSpec     two jobs with an engine each, interleaved                *)
(***************************************************************************)
EXTENDS Integers, Sequences, FiniteSets, TLC

VARIABLES
    pc,                \* position of execute_flash
    skip_unlock,       \* argument of execute_flash
    lock_bootloader,   \* argument of execute_flash
    bundle_exists,     \* whether the build manager can provide the bundle
    bundle,            \* the files of the bundle directory
    bundle_path,       \* engine.bundle_path ("None" until resolved)
    partition_files,   \* engine.partition_files
    current_state,     \* engine.current_state
    progress_log,      \* the FlashProgress values recorded, in order
    cmds,              \* the transport calls issued, in order, with their results
    result,            \* the value returned by execute_flash ("none" while running)
    wait_site,         \* the caller of the running wait_for_fastboot
    tick,              \* iterations done by the running polling loop
    core_i,            \* index of the core-partition loop
    core_flash_count,  \* core_flash_count of _flash_in_bootloader_fastboot
    super_idx,         \* idx of the loop of _flash_super_in_fastbootd
    waits,             \* the bounded waits that have returned, in order
    faults,            \* transport calls of the run that did not succeed
    w_call,            \* the polling loop under way: function, caller, timeout
    w_serial,          \* whether the transport has a device_serial
    w_pc,              \* position inside the polling loop
    w_elapsed,         \* seconds since the loop took start_time
    w_ret,             \* what the loop returned ("none" while it runs)
    w_last,            \* the latest poll command and its result
    w_met,             \* some poll result so far met the loop's success criterion
    w_seen,            \* the kinds of poll results so far that did not
    exit_code,         \* exit status of the CLI process ("none" while it runs)
    flasher,           \* flasher.py: the GrapheneFlasher object and main's locals
    f_cmds,            \* flasher.py: the fastboot commands issued, in order
    job,               \* utils/flash.py: the entry of flash_jobs for one job
    runner,            \* position of the job's thread in _run_flash
    proc,              \* the flash script started by Popen and its commands
    stops,             \* the terminate() calls that reached a running script
    stream,            \* routes/flash.py: one subscriber of the job's log stream
    active,            \* two jobs: the device serial of the job whose thread runs
    parked             \* two jobs: the engine of the job whose thread waits

engine_vars == <<pc, skip_unlock, lock_bootloader, bundle_exists, bundle, bundle_path,
                 partition_files, current_state, progress_log, cmds, result,
                 wait_site, tick, core_i, core_flash_count, super_idx, waits, faults>>

wait_vars == <<w_call, w_serial, w_pc, w_elapsed, w_ret, w_last, w_met, w_seen>>

\* the callers of execute_flash
flasher_vars == <<flasher, f_cmds>>

job_vars == <<job, runner, proc, stops, stream>>

pair_vars == <<active, parked>>

caller_vars == <<exit_code, flasher_vars, job_vars, pair_vars>>

vars == <<engine_vars, wait_vars, caller_vars>>

inputs == <<skip_unlock, lock_bootloader, bundle_exists, bundle>>

-----------------------------------------------------------------------------
(* Bounds of the model *)

\* iterations a polling loop makes before its overall timeout has elapsed
\* (the loops sleep 2 s per iteration and run for 60 s or 90 s; every wait
\* of the model gets the same number of iterations)
MaxTicks == 1

\* transport calls of one run that fail, raise or report "not ready yet"
MaxFaults == 2

\* of these, the ones the second of two interleaved jobs has
PairFaults == 1

\* largest numeric suffix of a split super image in the modelled bundles
MaxSuperSuffix == 10

\* flash commands in the flash script a job runs
MaxScriptFlashes == 3

-----------------------------------------------------------------------------
(* FlashState *)

FlashState == {"INIT", "ADB", "FASTBOOT", "FASTBOOT_FLASH", "FASTBOOTD",
               "FASTBOOTD_FLASH", "FINAL", "DONE", "ERROR"}

-----------------------------------------------------------------------------
(* File names.  A file is its partition and the characters matched by the  *)
(* wildcard of its glob pattern (character codes); every name ends in      *)
(* ".img".                                                                 *)

DotImg == <<46, 105, 109, 103>>

RECURSIVE Digits(_)
Digits(n) == IF n < 10 THEN <<48 + n>> ELSE Digits(n \div 10) \o <<48 + (n % 10)>>

NoFile == [part |-> "", wild |-> <<>>]

SuperFile(n) == [part |-> "super", wild |-> Digits(n)]

FixedFile(p) == [part |-> p, wild |-> <<>>]

\* bootloader-panther-x.img, radio-panther-y.img
BootloaderFile == [part |-> "bootloader", wild |-> <<112, 97, 110, 116, 104, 101, 114, 45, 120>>]
RadioFile == [part |-> "radio", wild |-> <<112, 97, 110, 116, 104, 101, 114, 45, 121>>]

\* the part of the name that decides the order of two matches of one glob
\* (the matches share everything before the wildcard)
SortKey(f) == f.wild \o DotImg

\* string comparison a < b
RECURSIVE LexLess(_, _)
LexLess(a, b) ==
    IF a = <<>> THEN b # <<>>
    ELSE IF b = <<>> THEN FALSE
    ELSE IF Head(a) # Head(b) THEN Head(a) < Head(b)
    ELSE LexLess(Tail(a), Tail(b))

PathLess(f, g) == LexLess(SortKey(f), SortKey(g))

\* sorted(paths)
RECURSIVE sorted(_)
sorted(S) ==
    IF S = {} THEN <<>>
    ELSE LET m == CHOOSE f \in S : \A g \in S \ {f} : PathLess(f, g)
         IN  <<m>> \o sorted(S \ {m})

\* bundle_path.glob("<part>...img")
glob(b, part) == {f \in b : f.part = part}

-----------------------------------------------------------------------------
(* PythonBuildManager.find_partition_files *)

BuildCorePartitions == <<"boot", "vendor_boot", "dtbo", "vbmeta", "init_boot",
                         "vendor_kernel_boot", "pvmfw">>

SeqRange(s) == {s[i] : i \in 1..Len(s)}

find_super(b) == sorted(glob(b, "super"))

find_partition_files(b) ==
    LET bootloader_files == sorted(glob(b, "bootloader"))
        radio_files == sorted(glob(b, "radio"))
        super_images == find_super(b)
        dom == (IF bootloader_files # <<>> THEN {"bootloader"} ELSE {})
               \cup (IF radio_files # <<>> THEN {"radio"} ELSE {})
               \cup {p \in SeqRange(BuildCorePartitions) : FixedFile(p) \in b}
               \cup (IF super_images # <<>> THEN {"super"} ELSE {})
    IN  [p \in dom |->
            IF p = "bootloader" THEN bootloader_files[1]
            ELSE IF p = "radio" THEN radio_files[1]
            ELSE IF p = "super" THEN super_images
            ELSE FixedFile(p)]

-----------------------------------------------------------------------------
(* The bundles of the model *)

CoreChoices == {
    {},
    {"boot", "vendor_boot", "dtbo", "vbmeta"},
    {"boot", "init_boot", "dtbo", "vendor_kernel_boot", "pvmfw", "vendor_boot", "vbmeta"} }

SuperSuffixChoices == { {}, {1, 2}, {2, MaxSuperSuffix}, {1, 2, MaxSuperSuffix} }

Bundles ==
    { fw \cup {FixedFile(p) : p \in c} \cup {SuperFile(n) : n \in s} :
        fw \in SUBSET {BootloaderFile, RadioFile},
        c \in CoreChoices,
        s \in SuperSuffixChoices }

-----------------------------------------------------------------------------
(* Transport calls and their results *)

\* one transport call: the verb (adb_command, fastboot_command,
\* fastbootd_command), its arguments (op, part, file), what it returned and
\* the engine's current_state when it was made
Cmd(verb, op, part, file, r) ==
    [verb |-> verb, op |-> op, part |-> part, file |-> file,
     state |-> current_state, events |-> Len(progress_log),
     success |-> r.success, out |-> r.out, raised |-> r.raised, msg |-> r.msg]

Ok(out) == [success |-> TRUE, out |-> out, raised |-> FALSE, msg |-> ""]
Failed == [success |-> FALSE, out |-> "", raised |-> FALSE, msg |-> ""]

\* a call that raises an exception e; msg is str(e)
RaisedWith(m) == [success |-> FALSE, out |-> "", raised |-> TRUE, msg |-> m]
Raised == RaisedWith("transport error")

\* an exception raised without arguments: str(e) is the empty string
RaisedSilent == RaisedWith("")

\* results of a command whose output is not inspected
Plain == {Ok(""), Failed, Raised, RaisedSilent}

\* PythonTransport._run_command never raises: it returns success=False
RunCommand(outs) == {Ok(o) : o \in outs} \cup {Failed}

-----------------------------------------------------------------------------
(* FlashProgress values and the result of execute_flash *)

FlashProgress(state, percent, partition) ==
    [state |-> state, progress_percent |-> percent, partition |-> partition]

\* _transition(new_state, ...): _update_progress with the default progress
\* and no partition
_transition(new_state) == FlashProgress(new_state, 0, "None")

Failure(err) ==
    [success |-> FALSE, error |-> err, final_state |-> "ERROR", bundle_path |-> "None"]

Success ==
    [success |-> TRUE, error |-> "None", final_state |-> "DONE", bundle_path |-> "bundle"]

-----------------------------------------------------------------------------
(* Control flow of execute_flash.  A continuation k is the engine's control *)
(* state after the code that runs up to the next transport call: the next   *)
(* position, the FlashProgress values recorded on the way (evs), the loop   *)
(* variables and the returned result.                                       *)

Here ==
    [pc |-> pc, evs |-> <<>>, result |-> result, wait_site |-> wait_site,
     tick |-> tick, core_i |-> core_i, core_flash_count |-> core_flash_count,
     super_idx |-> super_idx]

Apply(k) ==
    /\ pc' = k.pc
    /\ progress_log' = progress_log \o k.evs
    /\ current_state' = IF k.evs = <<>> THEN current_state ELSE k.evs[Len(k.evs)].state
    /\ result' = k.result
    /\ wait_site' = k.wait_site
    /\ tick' = k.tick
    /\ core_i' = k.core_i
    /\ core_flash_count' = k.core_flash_count
    /\ super_idx' = k.super_idx

Goto(k, label) == [k EXCEPT !.pc = label]

Emit(k, ev) == [k EXCEPT !.evs = Append(@, ev)]

\* a step of execute_flash returned False: return the failure result
ReturnFailure(k, err) == [k EXCEPT !.pc = "done", !.result = Failure(err)]

\* mutant: the except branch reports the state the failure happened in
Except_StateAtFailure(k, err) ==
    [Emit(k, _transition("ERROR")) EXCEPT
        !.pc = "done",
        !.result = [Failure(err) EXCEPT !.final_state = current_state]]

\* mutant: the except branch returns without recording ERROR
Except_NoTransition(k, err) ==
    [k EXCEPT !.pc = "done", !.result = Failure(err)]

\* except Exception as e: _transition(ERROR) and return the failure result
Except(k, err) ==
    [Emit(k, _transition("ERROR")) EXCEPT !.pc = "done", !.result = Failure(err)]

\* self.transport.wait_for_fastboot(...) called from site
CallWait(k, site) == [k EXCEPT !.pc = "wait_for_fastboot", !.wait_site = site, !.tick = 0]

-----------------------------------------------------------------------------
(* The steps of execute_flash, last step first *)

\* mutant: FINAL is entered whatever _flash_super_in_fastbootd returned
FlashSuperReturned_LockAnyway(k, ok) ==
    Goto(Emit(k, _transition("FINAL")),
         IF lock_bootloader THEN "lock_bootloader" ELSE "final_reboot")

\* _flash_super_in_fastbootd returned ok: FINAL, then the optional lock and
\* the final reboot
FlashSuperReturned(k, ok) ==
    IF ok
    THEN Goto(Emit(k, _transition("FINAL")),
              IF lock_bootloader THEN "lock_bootloader" ELSE "final_reboot")
    ELSE ReturnFailure(k, "Failed to flash super partition in fastbootd")

\* super_images of _flash_super_in_fastbootd
super_images ==
    IF "super" \in DOMAIN partition_files THEN partition_files["super"]
    ELSE IF bundle_path # "None" THEN sorted(glob(bundle, "super"))
    ELSE <<>>

\* mutant: the share of the super phase is given to every image
SuperPercent_PerImage(idx, total_super) == 60 + (idx * 35)

SuperPercent(idx, total_super) == 60 + ((idx * 35) \div total_super)

\* mutant: the loop stops one image early
SuperLoop_OffByOne(k, idx) ==
    IF idx >= Len(super_images)
    THEN FlashSuperReturned(k, TRUE)
    ELSE Goto(Emit([k EXCEPT !.super_idx = idx],
                   FlashProgress("FASTBOOTD_FLASH",
                                 SuperPercent(idx, Len(super_images)), "super")),
              "flash_super")

\* the loop over super_images, entered at idx
SuperLoop(k, idx) ==
    IF idx > Len(super_images)
    THEN FlashSuperReturned(k, TRUE)
    ELSE Goto(Emit([k EXCEPT !.super_idx = idx],
                   FlashProgress("FASTBOOTD_FLASH",
                                 SuperPercent(idx, Len(super_images)), "super")),
              "flash_super")

\* _enter_fastbootd returned ok: FASTBOOTD_FLASH and _flash_super_in_fastbootd
\* up to its first flash
EnterFastbootdReturned(k, ok) ==
    IF ok
    THEN LET k2 == Emit(k, _transition("FASTBOOTD_FLASH"))
         IN  IF super_images = <<>> THEN FlashSuperReturned(k2, FALSE)
             ELSE SuperLoop(k2, 1)
    ELSE ReturnFailure(k, "Failed to enter fastbootd mode")

\* mutant: the FASTBOOTD transition is left out
FlashInBootloaderReturned_SkipState(k, ok) ==
    IF ok
    THEN Goto(k, "reboot_fastboot")
    ELSE ReturnFailure(k, "Failed to flash partitions in bootloader fastboot")

\* _flash_in_bootloader_fastboot returned ok: FASTBOOTD and _enter_fastbootd
FlashInBootloaderReturned(k, ok) ==
    IF ok
    THEN Goto(Emit(k, _transition("FASTBOOTD")), "reboot_fastboot")
    ELSE ReturnFailure(k, "Failed to flash partitions in bootloader fastboot")

\* core_partitions of _flash_in_bootloader_fastboot
\* mutant: the loop walks the partitions in the order of the build manager
core_partitions_ManagerOrder ==
    <<"boot", "vendor_boot", "dtbo", "vbmeta", "init_boot", "vendor_kernel_boot", "pvmfw">>

core_partitions == <<"boot", "init_boot", "dtbo", "vendor_kernel_boot", "pvmfw",
                     "vendor_boot", "vbmeta">>

\* partition_file of the core loop (NoFile stands for None)
partition_file(partition_name) ==
    IF partition_name \in DOMAIN partition_files THEN partition_files[partition_name]
    ELSE IF bundle_path # "None" /\ FixedFile(partition_name) \in bundle
         THEN FixedFile(partition_name)
    ELSE NoFile

core_total ==
    Cardinality({i \in 1..Len(core_partitions) :
                    \/ core_partitions[i] \in DOMAIN partition_files
                    \/ FixedFile(core_partitions[i]) \in bundle})

CorePercent(count, total) == 20 + ((count * 30) \div total)

\* the loop over core_partitions, entered at index i: skip the partitions
\* without a file, stop before the next flash or leave the loop
RECURSIVE CoreLoop(_, _)
CoreLoop(k, i) ==
    IF i > Len(core_partitions) THEN FlashInBootloaderReturned(k, TRUE)
    ELSE IF partition_file(core_partitions[i]) = NoFile THEN CoreLoop(k, i + 1)
    ELSE Goto(Emit([k EXCEPT !.core_i = i, !.core_flash_count = @ + 1],
                   FlashProgress("FASTBOOT_FLASH",
                                 CorePercent(k.core_flash_count + 1, core_total),
                                 core_partitions[i])),
              "flash_core")

\* mutant: the radio step is left out
FlashRadioStep_Skip(k) == CoreLoop(k, 1)

\* Step 2 of _flash_in_bootloader_fastboot: radio (if present)
FlashRadioStep(k) ==
    IF "radio" \in DOMAIN partition_files
    THEN Goto(Emit(k, FlashProgress("FASTBOOT_FLASH", 15, "radio")), "flash_radio")
    ELSE CoreLoop(k, 1)

\* Step 1 of _flash_in_bootloader_fastboot: bootloader (if present)
FlashBootloaderStep(k) ==
    IF "bootloader" \in DOMAIN partition_files
    THEN Goto(Emit(k, FlashProgress("FASTBOOT_FLASH", 5, "bootloader")), "flash_bootloader")
    ELSE FlashRadioStep(k)

\* the device is back in fastboot after the reboot that follows the
\* bootloader (site "bootloader") or the radio (site "radio") flash
Reconnected(k, site) ==
    IF site = "bootloader" THEN FlashRadioStep(k) ELSE CoreLoop(k, 1)

\* mutant: the result of _enter_fastboot is not looked at
EnterFastbootReturned_IgnoreResult(k, ok) ==
    FlashBootloaderStep(Emit(k, _transition("FASTBOOT_FLASH")))

\* _enter_fastboot returned ok: FASTBOOT_FLASH and _flash_in_bootloader_fastboot
EnterFastbootReturned(k, ok) ==
    IF ok
    THEN FlashBootloaderStep(Emit(k, _transition("FASTBOOT_FLASH")))
    ELSE ReturnFailure(k, "Failed to enter fastboot mode")

\* _unlock_bootloader returned ok (or was skipped): FASTBOOT and _enter_fastboot
UnlockReturned(k, ok) ==
    IF ok
    THEN Goto(Emit(k, _transition("FASTBOOT")), "enter_fastboot")
    ELSE ReturnFailure(k, "Failed to unlock bootloader")

\* mutant: the unlock step runs whatever skip_unlock says
BundleResolved_AlwaysUnlock(k) ==
    Goto(Emit(k, _transition("ADB")), "unlock_query")

\* the code after find_partition_files
BundleResolved(k) ==
    IF ~skip_unlock
    THEN Goto(Emit(k, _transition("ADB")), "unlock_query")
    ELSE UnlockReturned(k, TRUE)

\* mutant: after a reconnect wait that failed the flashing goes on at once
WaitReturned_ContinueAnyway(k, site, ok) ==
    CASE site = "unlock" -> UnlockReturned(k, ok)
      [] site = "enter" -> EnterFastbootReturned(k, ok)
      [] OTHER -> Reconnected(k, site)

\* wait_for_fastboot returned ok to its caller
WaitReturned(k, site, ok) ==
    CASE site = "unlock" -> UnlockReturned(k, ok)
      [] site = "enter" -> EnterFastbootReturned(k, ok)
      [] OTHER -> IF ok THEN Reconnected(k, site) ELSE Goto(k, "recheck")

\* mutant: any answer to getvar is-userspace counts
IsUserspace_AnyAnswer(r) == r.success

\* the output of getvar is-userspace reports userspace fastboot
IsUserspace(r) == r.success /\ r.out = "is-userspace: yes"

-----------------------------------------------------------------------------
(* The polling loops in seconds: PythonTransport.wait_for_fastboot,        *)
(* PythonTransport.wait_for_fastbootd and the loop of _enter_fastbootd.    *)
(* execute_flash above counts their iterations; here one loop runs alone   *)
(* against the clock that its while condition reads.                       *)

\* check_interval of the three loops
CheckInterval == 2

\* timeout= of the poll commands (devices, getvar is-userspace)
PollCommandTimeout == 5

\* time.sleep(5) between the unlock request and its wait_for_fastboot
UnlockSleep == 5

\* wait_for_fastboot(timeout=60) of _unlock_bootloader
UnlockWaitTimeout == 60

\* wait_for_fastboot(timeout=90) of _enter_fastboot
EnterWaitTimeout == 90

\* wait_for_fastboot(timeout=60) after reboot-bootloader
ReconnectWaitTimeout == 60

\* timeout_seconds of _enter_fastbootd
FastbootdPollTimeout == 90

\* default timeout of wait_for_fastbootd
FastbootdWaitTimeout == 60

\* the calls of a polling loop
WaitCalls ==
    { [fn |-> "wait_for_fastboot", site |-> "unlock", timeout |-> UnlockWaitTimeout],
      [fn |-> "wait_for_fastboot", site |-> "enter", timeout |-> EnterWaitTimeout],
      [fn |-> "wait_for_fastboot", site |-> "reconnect", timeout |-> ReconnectWaitTimeout],
      [fn |-> "wait_for_fastbootd", site |-> "none", timeout |-> FastbootdWaitTimeout],
      [fn |-> "_enter_fastbootd", site |-> "fastbootd", timeout |-> FastbootdPollTimeout] }

\* what fastboot devices prints
DevicesOut ==
    {"", "serial\tfastboot", "serial\tfastbootd", "other\tfastboot",
     "other\tfastboot\nthird\tfastboot"}

\* the lines of a listing: the devices it lists, with their mode
Listed(out) ==
    CASE out = "serial\tfastboot" -> {<<"serial", "fastboot">>}
      [] out = "serial\tfastbootd" -> {<<"serial", "fastbootd">>}
      [] out = "other\tfastboot" -> {<<"other", "fastboot">>}
      [] out = "other\tfastboot\nthird\tfastboot"
            -> {<<"other", "fastboot">>, <<"third", "fastboot">>}
      [] OTHER -> {}

\* what fastboot getvar is-userspace prints
GetvarOut == {"", "is-userspace: yes", "is-userspace: no"}

\* subprocess.run(cmd, timeout=5): the process exits with a return code
\* after took seconds, the timeout expires, or the call itself fails
subprocess_run(outs) ==
    { [kind |-> "completed", returncode |-> rc, stdout |-> o, took |-> d] :
        rc \in {0, 1}, o \in outs, d \in {0, 1} }
    \cup { [kind |-> "TimeoutExpired", returncode |-> -1, stdout |-> "",
            took |-> PollCommandTimeout],
           [kind |-> "Exception", returncode |-> -1, stdout |-> "", took |-> 0] }

\* a transport other than PythonTransport may raise
TransportRaises == [kind |-> "raise", returncode |-> -1, stdout |-> "", took |-> 0]

\* PythonTransport._run_command: the result of the process p
_run_command(p) ==
    IF p.kind = "raise" THEN Raised
    ELSE IF p.kind = "completed"
         THEN [success |-> p.returncode = 0, out |-> p.stdout, raised |-> FALSE]
    ELSE Failed

\* f"{self.device_serial}\tfastboot" in output
ListsSerialFastboot(out) ==
    \E d \in Listed(out) : d[1] = "serial" /\ d[2] \in {"fastboot", "fastbootd"}

\* "fastboot" in output and "List of devices" not in output, and some line
\* has "fastboot"
ListsAnyFastboot(out) ==
    \E d \in Listed(out) : d[2] \in {"fastboot", "fastbootd"}

\* self.device_serial in output
ListsSerial(out) == \E d \in Listed(out) : d[1] = "serial"

\* the test of wait_for_fastboot on the result of fastboot devices
FoundInFastboot(r) ==
    /\ r.success
    /\ IF w_serial THEN ListsSerialFastboot(r.out) ELSE ListsAnyFastboot(r.out)

\* no caller of execute_flash has acted
CliIdle == exit_code = "none"

\* flasher.py is not running
FlasherIdle ==
    /\ flasher = [pc |-> "none"]
    /\ f_cmds = <<>>

\* flash_jobs is empty
JobIdle ==
    /\ job = [status |-> "none"]
    /\ runner = "none"
    /\ proc = [state |-> "none"]
    /\ stops = <<>>
    /\ stream = [pc |-> "none"]

\* there is no second job
PairIdle ==
    /\ active = "none"
    /\ parked = [pc |-> "none"]

CallerIdle == CliIdle /\ FlasherIdle /\ JobIdle /\ PairIdle

\* the state outside a polling loop
WaitIdle ==
    /\ w_call = [fn |-> "none", site |-> "none", timeout |-> 0]
    /\ w_serial = TRUE
    /\ w_pc = "idle"
    /\ w_elapsed = 0
    /\ w_ret = "none"
    /\ w_last = [cmd |-> "none", result |-> Failed]
    /\ w_met = FALSE
    /\ w_seen = {}

\* the success criterion of the loop for the result r of its command cmd:
\* the pinned serial (or, without one, any device) is listed by a successful
\* fastboot devices; a successful getvar reports is-userspace: yes
MeetsCriterion(cmd, r) ==
    /\ r.success
    /\ IF w_call.fn = "wait_for_fastboot"
       THEN /\ cmd = "devices"
            /\ IF w_serial THEN ListsSerialFastboot(r.out)
               ELSE r.out # ""
       ELSE /\ cmd = "getvar is-userspace"
            /\ r.out = "is-userspace: yes"

\* what went wrong with a poll that did not find the device
TickKind(p) ==
    IF p.kind = "TimeoutExpired" THEN "timeout"
    ELSE IF p.kind # "completed" \/ p.returncode # 0 THEN "error"
    ELSE IF p.stdout = "" THEN "empty"
    ELSE "other"

\* the poll command cmd ended as p: bookkeeping of the histories
Observe(cmd, p) ==
    /\ w_last' = [cmd |-> cmd, result |-> _run_command(p)]
    /\ w_met' = (w_met \/ MeetsCriterion(cmd, _run_command(p)))
    /\ w_seen' = IF MeetsCriterion(cmd, _run_command(p)) THEN w_seen
                 ELSE w_seen \cup {TickKind(p)}

\* return v after the command that took seconds
Return(v, took) ==
    /\ w_pc' = "returned"
    /\ w_ret' = v
    /\ w_elapsed' = w_elapsed + took

\* time.sleep(check_interval) after the command that took seconds, then the
\* loop condition at next_pc
Sleep(took, next_pc) ==
    /\ w_pc' = next_pc
    /\ w_ret' = w_ret
    /\ w_elapsed' = w_elapsed + took + CheckInterval

\* a step inside the loop that takes the time of its command only
Continue(took, next_pc) ==
    /\ w_pc' = next_pc
    /\ w_ret' = w_ret
    /\ w_elapsed' = w_elapsed + took

\* a polling loop is called
WaitInit ==
    /\ pc = "off"
    /\ skip_unlock = FALSE
    /\ lock_bootloader = FALSE
    /\ bundle_exists = FALSE
    /\ bundle = {}
    /\ bundle_path = "None"
    /\ partition_files = [p \in {} |-> NoFile]
    /\ current_state = "INIT"
    /\ progress_log = <<>>
    /\ cmds = <<>>
    /\ result = "none"
    /\ wait_site = "none"
    /\ tick = 0
    /\ core_i = 0
    /\ core_flash_count = 0
    /\ super_idx = 0
    /\ waits = <<>>
    /\ faults = 0
    /\ w_call \in WaitCalls
    /\ w_serial \in BOOLEAN
    /\ w_pc = "loop"
    /\ w_elapsed = 0
    /\ w_ret = "none"
    /\ w_last = [cmd |-> "none", result |-> Failed]
    /\ w_met = FALSE
    /\ w_seen = {}
    /\ CallerIdle

\* mutant: a poll command that fails ends the wait
wait_for_fastboot_tick_AbortOnError ==
    /\ w_call.fn = "wait_for_fastboot"
    /\ w_pc = "loop"
    /\ w_elapsed < w_call.timeout
    /\ \E p \in subprocess_run(DevicesOut) :
        /\ Observe("devices", p)
        /\ IF FoundInFastboot(_run_command(p)) THEN Return("True", p.took)
           ELSE IF ~_run_command(p).success THEN Return("False", p.took)
           ELSE Sleep(p.took, "loop")
    /\ UNCHANGED <<engine_vars, caller_vars, w_call, w_serial>>

\* mutant: the loop does not see the time pass
wait_for_fastboot_tick_NoClock ==
    /\ w_call.fn = "wait_for_fastboot"
    /\ w_pc = "loop"
    /\ w_elapsed < w_call.timeout
    /\ \E p \in subprocess_run(DevicesOut) :
        /\ Observe("devices", p)
        /\ IF FoundInFastboot(_run_command(p)) THEN Return("True", p.took)
           ELSE Continue(0, "loop")
    /\ UNCHANGED <<engine_vars, caller_vars, w_call, w_serial>>

\* wait_for_fastboot: one iteration of the loop
wait_for_fastboot_tick ==
    /\ w_call.fn = "wait_for_fastboot"
    /\ w_pc = "loop"
    /\ w_elapsed < w_call.timeout
    /\ \E p \in subprocess_run(DevicesOut) :
        /\ Observe("devices", p)
        /\ IF FoundInFastboot(_run_command(p)) THEN Return("True", p.took)
           ELSE Sleep(p.took, "loop")
    /\ UNCHANGED <<engine_vars, caller_vars, w_call, w_serial>>

\* wait_for_fastboot and wait_for_fastbootd: the loop condition is false
wait_timeout ==
    /\ w_call.fn \in {"wait_for_fastboot", "wait_for_fastbootd"}
    /\ w_pc = "loop"
    /\ w_elapsed >= w_call.timeout
    /\ Return("False", 0)
    /\ UNCHANGED <<engine_vars, caller_vars, w_call, w_serial, w_last, w_met, w_seen>>

\* wait_for_fastbootd: getvar is-userspace at the head of an iteration
wait_for_fastbootd_query ==
    /\ w_call.fn = "wait_for_fastbootd"
    /\ w_pc = "loop"
    /\ w_elapsed < w_call.timeout
    /\ \E p \in subprocess_run(GetvarOut) :
        /\ Observe("getvar is-userspace", p)
        /\ IF IsUserspace(_run_command(p)) THEN Return("True", p.took)
           ELSE Continue(p.took, "devices")
    /\ UNCHANGED <<engine_vars, caller_vars, w_call, w_serial>>

\* wait_for_fastbootd: the devices list of the iteration
wait_for_fastbootd_devices ==
    /\ w_call.fn = "wait_for_fastbootd"
    /\ w_pc = "devices"
    /\ \E p \in subprocess_run(DevicesOut) :
        /\ Observe("devices", p)
        /\ IF _run_command(p).success /\ w_serial /\ ListsSerial(_run_command(p).out)
           THEN Continue(p.took, "verify")
           ELSE Sleep(p.took, "loop")
    /\ UNCHANGED <<engine_vars, caller_vars, w_call, w_serial>>

\* wait_for_fastbootd: the second getvar is-userspace of the iteration
wait_for_fastbootd_verify ==
    /\ w_call.fn = "wait_for_fastbootd"
    /\ w_pc = "verify"
    /\ \E p \in subprocess_run(GetvarOut) :
        /\ Observe("getvar is-userspace", p)
        /\ IF IsUserspace(_run_command(p)) THEN Return("True", p.took)
           ELSE Sleep(p.took, "loop")
    /\ UNCHANGED <<engine_vars, caller_vars, w_call, w_serial>>

\* _enter_fastbootd: one iteration of the loop; an exception is swallowed
_enter_fastbootd_poll ==
    /\ w_call.fn = "_enter_fastbootd"
    /\ w_pc = "loop"
    /\ w_elapsed < w_call.timeout
    /\ \E p \in subprocess_run(GetvarOut) \cup {TransportRaises} :
        /\ Observe("getvar is-userspace", p)
        /\ IF IsUserspace(_run_command(p)) THEN Return("True", p.took)
           ELSE Sleep(p.took, "loop")
    /\ UNCHANGED <<engine_vars, caller_vars, w_call, w_serial>>

\* _enter_fastbootd: the final check after the loop; an exception leaves
\* the function
_enter_fastbootd_final ==
    /\ w_call.fn = "_enter_fastbootd"
    /\ w_pc = "loop"
    /\ w_elapsed >= w_call.timeout
    /\ \E p \in subprocess_run(GetvarOut) \cup {TransportRaises} :
        /\ Observe("getvar is-userspace", p)
        /\ IF p.kind = "raise" THEN Return("raised", p.took)
           ELSE IF IsUserspace(_run_command(p)) THEN Return("True", p.took)
           ELSE Return("False", p.took)
    /\ UNCHANGED <<engine_vars, caller_vars, w_call, w_serial>>

WaitNext ==
    \/ wait_for_fastboot_tick
    \/ wait_timeout
    \/ wait_for_fastbootd_query
    \/ wait_for_fastbootd_devices
    \/ wait_for_fastbootd_verify
    \/ _enter_fastbootd_poll
    \/ _enter_fastbootd_final

WaitSpec == WaitInit /\ [][WaitNext]_vars

-----------------------------------------------------------------------------
(* Initial state: the engine after __init__, before execute_flash *)

Init ==
    /\ pc = "start"
    /\ skip_unlock \in BOOLEAN
    /\ lock_bootloader \in BOOLEAN
    /\ bundle_exists \in BOOLEAN
    /\ bundle \in Bundles
    /\ bundle_path = "None"
    /\ partition_files = [p \in {} |-> NoFile]
    /\ current_state = "INIT"
    /\ progress_log = <<>>
    /\ cmds = <<>>
    /\ result = "none"
    /\ wait_site = "none"
    /\ tick = 0
    /\ core_i = 0
    /\ core_flash_count = 0
    /\ super_idx = 0
    /\ waits = <<>>
    /\ faults = 0
    /\ WaitIdle
    /\ CallerIdle

\* a call that failed, raised, or polled a device that is not there yet
IsFault(c) ==
    \/ ~c.success
    \/ c.op = "devices" /\ c.out # "serial\tfastboot"
    \/ c.op = "getvar is-userspace" /\ c.out # "is-userspace: yes"

\* a bounded wait (wait_for_fastboot called from site, or the fastbootd poll
\* of _enter_fastbootd) returned ok after the transport calls cmds'
WaitDone(site, ok) == waits' = Append(waits, [site |-> site, ok |-> ok, at |-> Len(cmds')])

\* the transport call c is made and has returned; of the calls that did
\* not succeed a run has MaxFaults, and an exception without a message is
\* the first of them
Issue(c) ==
    /\ IsFault(c) => faults < MaxFaults
    /\ (c.raised /\ c.msg = "") => faults = 0
    /\ cmds' = Append(cmds, c)
    /\ faults' = IF IsFault(c) THEN faults + 1 ELSE faults

-----------------------------------------------------------------------------
(* Actions *)

\* execute_flash: _transition(INIT)
Start ==
    /\ pc = "start"
    /\ Apply(Goto(Emit(Here, _transition("INIT")), "resolve"))
    /\ UNCHANGED <<wait_vars, caller_vars, inputs, bundle_path, partition_files, cmds, faults, waits>>

\* ensure_bundle_available and find_partition_files; both raise
\* FileNotFoundError when the bundle is not there
ResolveBundle ==
    /\ pc = "resolve"
    /\ IF bundle_exists
       THEN /\ bundle_path' = "bundle"
            /\ partition_files' = find_partition_files(bundle)
            /\ Apply(BundleResolved(Here))
       ELSE /\ Apply(Except(Here, "Bundle not found and download failed"))
            /\ UNCHANGED <<bundle_path, partition_files>>
    /\ UNCHANGED <<wait_vars, caller_vars, inputs, cmds, faults, waits>>

\* mutant: the answer of the status query is not looked at
UnlockQuery_IgnoreAnswer ==
    /\ pc = "unlock_query"
    /\ \E r \in {Ok("0"), Ok("1"), Failed, Raised, RaisedSilent} :
        /\ Issue(Cmd("adb", "getprop ro.boot.flash.locked", "", NoFile, r))
        /\ Apply(IF r.raised THEN Except(Here, r.msg)
                 ELSE Goto(Here, "unlock_request"))
    /\ UNCHANGED <<wait_vars, caller_vars, inputs, bundle_path, partition_files, waits>>

\* _unlock_bootloader: adb shell getprop ro.boot.flash.locked
UnlockQuery ==
    /\ pc = "unlock_query"
    /\ \E r \in {Ok("0"), Ok("1"), Failed, Raised, RaisedSilent} :
        /\ Issue(Cmd("adb", "getprop ro.boot.flash.locked", "", NoFile, r))
        /\ Apply(IF r.raised THEN Except(Here, r.msg)
                 ELSE IF r.success /\ r.out = "0" THEN UnlockReturned(Here, TRUE)
                 ELSE Goto(Here, "unlock_request"))
    /\ UNCHANGED <<wait_vars, caller_vars, inputs, bundle_path, partition_files, waits>>

\* _unlock_bootloader: fastboot flashing unlock, then wait_for_fastboot
UnlockRequest ==
    /\ pc = "unlock_request"
    /\ \E r \in Plain :
        /\ Issue(Cmd("fastboot", "flashing unlock", "", NoFile, r))
        /\ Apply(IF r.raised THEN Except(Here, r.msg)
                 ELSE IF ~r.success THEN UnlockReturned(Here, FALSE)
                 ELSE CallWait(Here, "unlock"))
    /\ UNCHANGED <<wait_vars, caller_vars, inputs, bundle_path, partition_files, waits>>

\* PythonTransport.wait_for_fastboot: one iteration of the polling loop
\* (fastboot devices); the serial listed in fastboot mode ends the wait
WaitForFastbootTick ==
    /\ pc = "wait_for_fastboot"
    /\ tick < MaxTicks
    /\ \E r \in RunCommand({"", "serial\tfastboot"}) :
        /\ Issue(Cmd("fastboot", "devices", "", NoFile, r))
        /\ IF r.success /\ r.out = "serial\tfastboot"
           THEN /\ Apply(WaitReturned(Here, wait_site, TRUE))
                /\ WaitDone(wait_site, TRUE)
           ELSE /\ Apply([Here EXCEPT !.tick = @ + 1])
                /\ UNCHANGED waits
    /\ UNCHANGED <<wait_vars, caller_vars, inputs, bundle_path, partition_files>>

\* PythonTransport.wait_for_fastboot: the timeout has elapsed, return False
WaitForFastbootTimeout ==
    /\ pc = "wait_for_fastboot"
    /\ tick >= MaxTicks
    /\ UNCHANGED <<wait_vars, caller_vars, inputs, bundle_path, partition_files, cmds, faults>>
    /\ Apply(WaitReturned(Here, wait_site, FALSE))
    /\ WaitDone(wait_site, FALSE)

\* mutant: the device is rebooted whatever the probe says
EnterFastbootProbe_AlwaysReboot ==
    /\ pc = "enter_fastboot"
    /\ \E r \in Plain :
        /\ Issue(Cmd("fastboot", "getvar product", "", NoFile, r))
        /\ Apply(IF r.raised THEN Except(Here, r.msg)
                 ELSE Goto(Here, "reboot_to_bootloader"))
    /\ UNCHANGED <<wait_vars, caller_vars, inputs, bundle_path, partition_files, waits>>

\* _enter_fastboot: fastboot getvar product
EnterFastbootProbe ==
    /\ pc = "enter_fastboot"
    /\ \E r \in Plain :
        /\ Issue(Cmd("fastboot", "getvar product", "", NoFile, r))
        /\ Apply(IF r.raised THEN Except(Here, r.msg)
                 ELSE IF r.success THEN EnterFastbootReturned(Here, TRUE)
                 ELSE Goto(Here, "reboot_to_bootloader"))
    /\ UNCHANGED <<wait_vars, caller_vars, inputs, bundle_path, partition_files, waits>>

\* _enter_fastboot: adb reboot bootloader (result only logged), then
\* wait_for_fastboot
EnterFastbootReboot ==
    /\ pc = "reboot_to_bootloader"
    /\ \E r \in Plain :
        /\ Issue(Cmd("adb", "reboot bootloader", "", NoFile, r))
        /\ Apply(IF r.raised THEN Except(Here, r.msg)
                 ELSE CallWait(Here, "enter"))
    /\ UNCHANGED <<wait_vars, caller_vars, inputs, bundle_path, partition_files, waits>>

\* _flash_in_bootloader_fastboot: fastboot flash bootloader|radio <file>
FlashFirmware(part) ==
    /\ pc = "flash_" \o part
    /\ \E r \in Plain :
        /\ Issue(Cmd("fastboot", "flash", part, partition_files[part], r))
        /\ Apply(IF r.raised THEN Except(Here, r.msg)
                 ELSE IF ~r.success THEN FlashInBootloaderReturned(Here, FALSE)
                 ELSE [Here EXCEPT !.pc = "reboot_bootloader", !.wait_site = part])
    /\ UNCHANGED <<wait_vars, caller_vars, inputs, bundle_path, partition_files, waits>>

\* _flash_in_bootloader_fastboot: fastboot reboot-bootloader
RebootBootloader ==
    /\ pc = "reboot_bootloader"
    /\ \E r \in Plain :
        /\ Issue(Cmd("fastboot", "reboot-bootloader", "", NoFile, r))
        /\ Apply(IF r.raised THEN Except(Here, r.msg)
                 ELSE IF ~r.success THEN FlashInBootloaderReturned(Here, FALSE)
                 ELSE Goto(Here, "verify_fastboot"))
    /\ UNCHANGED <<wait_vars, caller_vars, inputs, bundle_path, partition_files, waits>>

\* _flash_in_bootloader_fastboot: fastboot getvar product after the reboot;
\* when it fails, wait_for_fastboot
VerifyFastboot ==
    /\ pc = "verify_fastboot"
    /\ \E r \in Plain :
        /\ Issue(Cmd("fastboot", "getvar product", "", NoFile, r))
        /\ Apply(IF r.raised THEN Except(Here, r.msg)
                 ELSE IF r.success THEN Reconnected(Here, wait_site)
                 ELSE CallWait(Here, wait_site))
    /\ UNCHANGED <<wait_vars, caller_vars, inputs, bundle_path, partition_files, waits>>

\* _flash_in_bootloader_fastboot: wait_for_fastboot returned False, "try one
\* more direct check before giving up"
Recheck ==
    /\ pc = "recheck"
    /\ \E r \in Plain :
        /\ Issue(Cmd("fastboot", "getvar product", "", NoFile, r))
        /\ Apply(IF r.raised THEN Except(Here, r.msg)
                 ELSE IF r.success THEN Reconnected(Here, wait_site)
                 ELSE FlashInBootloaderReturned(Here, FALSE))
    /\ UNCHANGED <<wait_vars, caller_vars, inputs, bundle_path, partition_files, waits>>

\* mutant: a reboot-bootloader follows every core partition
FlashCore_RebootAfter ==
    /\ pc = "flash_core"
    /\ \E r \in Plain :
        /\ Issue(Cmd("fastboot", "flash", core_partitions[core_i],
                     partition_file(core_partitions[core_i]), r))
        /\ Apply(IF r.raised THEN Except(Here, r.msg)
                 ELSE IF ~r.success THEN FlashInBootloaderReturned(Here, FALSE)
                 ELSE [Here EXCEPT !.pc = "reboot_bootloader", !.wait_site = "radio"])
    /\ UNCHANGED <<wait_vars, caller_vars, inputs, bundle_path, partition_files, waits>>

\* mutant: a failed core flash is only logged
FlashCore_IgnoreFailure ==
    /\ pc = "flash_core"
    /\ \E r \in Plain :
        /\ Issue(Cmd("fastboot", "flash", core_partitions[core_i],
                     partition_file(core_partitions[core_i]), r))
        /\ Apply(IF r.raised THEN Except(Here, r.msg)
                 ELSE CoreLoop(Here, core_i + 1))
    /\ UNCHANGED <<wait_vars, caller_vars, inputs, bundle_path, partition_files, waits>>

\* _flash_in_bootloader_fastboot: fastboot flash <core partition> <file>
FlashCore ==
    /\ pc = "flash_core"
    /\ \E r \in Plain :
        /\ Issue(Cmd("fastboot", "flash", core_partitions[core_i],
                     partition_file(core_partitions[core_i]), r))
        /\ Apply(IF r.raised THEN Except(Here, r.msg)
                 ELSE IF ~r.success THEN FlashInBootloaderReturned(Here, FALSE)
                 ELSE CoreLoop(Here, core_i + 1))
    /\ UNCHANGED <<wait_vars, caller_vars, inputs, bundle_path, partition_files, waits>>

\* _enter_fastbootd: fastboot reboot fastboot
RebootFastboot ==
    /\ pc = "reboot_fastboot"
    /\ \E r \in Plain :
        /\ Issue(Cmd("fastboot", "reboot fastboot", "", NoFile, r))
        /\ Apply(IF r.raised THEN Except(Here, r.msg)
                 ELSE IF ~r.success THEN EnterFastbootdReturned(Here, FALSE)
                 ELSE [Here EXCEPT !.pc = "poll_userspace", !.tick = 0])
    /\ UNCHANGED <<wait_vars, caller_vars, inputs, bundle_path, partition_files, waits>>

\* _enter_fastbootd: one iteration of the polling loop (fastbootd getvar
\* is-userspace); an exception of the call is swallowed
PollUserspace ==
    /\ pc = "poll_userspace"
    /\ tick < MaxTicks
    /\ \E r \in {Ok("is-userspace: yes"), Ok("is-userspace: no"), Failed, Raised} :
        /\ Issue(Cmd("fastbootd", "getvar is-userspace", "", NoFile, r))
        /\ IF IsUserspace(r)
           THEN /\ Apply(EnterFastbootdReturned(Here, TRUE))
                /\ WaitDone("fastbootd", TRUE)
           ELSE /\ Apply([Here EXCEPT !.tick = @ + 1])
                /\ UNCHANGED waits
    /\ UNCHANGED <<wait_vars, caller_vars, inputs, bundle_path, partition_files>>

\* _enter_fastbootd: the final check after the loop
FinalCheckUserspace ==
    /\ pc = "poll_userspace"
    /\ tick >= MaxTicks
    /\ \E r \in {Ok("is-userspace: yes"), Ok("is-userspace: no"), Failed, Raised, RaisedSilent} :
        /\ Issue(Cmd("fastbootd", "getvar is-userspace", "", NoFile, r))
        /\ IF r.raised
           THEN /\ Apply(Except(Here, r.msg))
                /\ UNCHANGED waits
           ELSE /\ Apply(EnterFastbootdReturned(Here, IsUserspace(r)))
                /\ WaitDone("fastbootd", IsUserspace(r))
    /\ UNCHANGED <<wait_vars, caller_vars, inputs, bundle_path, partition_files>>

\* mutant: a failed super flash is tried again
FlashSuper_Retry ==
    /\ pc = "flash_super"
    /\ \E r \in Plain :
        /\ Issue(Cmd("fastbootd", "flash", "super", super_images[super_idx], r))
        /\ Apply(IF r.raised THEN Except(Here, r.msg)
                 ELSE IF ~r.success THEN Here
                 ELSE SuperLoop(Here, super_idx + 1))
    /\ UNCHANGED <<wait_vars, caller_vars, inputs, bundle_path, partition_files, waits>>

\* _flash_super_in_fastbootd: fastbootd flash super <image>
FlashSuper ==
    /\ pc = "flash_super"
    /\ \E r \in Plain :
        /\ Issue(Cmd("fastbootd", "flash", "super", super_images[super_idx], r))
        /\ Apply(IF r.raised THEN Except(Here, r.msg)
                 ELSE IF ~r.success THEN FlashSuperReturned(Here, FALSE)
                 ELSE SuperLoop(Here, super_idx + 1))
    /\ UNCHANGED <<wait_vars, caller_vars, inputs, bundle_path, partition_files, waits>>

\* mutant: a failed lock command fails the run
LockBootloader_Fatal ==
    /\ pc = "lock_bootloader"
    /\ \E r \in Plain :
        /\ Issue(Cmd("fastbootd", "flashing lock", "", NoFile, r))
        /\ Apply(IF r.raised THEN Except(Here, r.msg)
                 ELSE IF ~r.success THEN ReturnFailure(Here, "Failed to lock bootloader")
                 ELSE Goto(Here, "final_reboot"))
    /\ UNCHANGED <<wait_vars, caller_vars, inputs, bundle_path, partition_files, waits>>

\* _lock_bootloader: fastbootd flashing lock (a failure is only logged)
LockBootloader ==
    /\ pc = "lock_bootloader"
    /\ \E r \in Plain :
        /\ Issue(Cmd("fastbootd", "flashing lock", "", NoFile, r))
        /\ Apply(IF r.raised THEN Except(Here, r.msg)
                 ELSE Goto(Here, "final_reboot"))
    /\ UNCHANGED <<wait_vars, caller_vars, inputs, bundle_path, partition_files, waits>>

\* execute_flash: fastbootd reboot (a failure is only logged), DONE
FinalReboot ==
    /\ pc = "final_reboot"
    /\ \E r \in Plain :
        /\ Issue(Cmd("fastbootd", "reboot", "", NoFile, r))
        /\ Apply(IF r.raised THEN Except(Here, r.msg)
                 ELSE [Emit(Here, _transition("DONE")) EXCEPT
                          !.pc = "done", !.result = Success])
    /\ UNCHANGED <<wait_vars, caller_vars, inputs, bundle_path, partition_files, waits>>

Next ==
    \/ Start
    \/ ResolveBundle
    \/ UnlockQuery
    \/ UnlockRequest
    \/ WaitForFastbootTick
    \/ WaitForFastbootTimeout
    \/ EnterFastbootProbe
    \/ EnterFastbootReboot
    \/ FlashFirmware("bootloader")
    \/ FlashFirmware("radio")
    \/ RebootBootloader
    \/ VerifyFastboot
    \/ Recheck
    \/ FlashCore
    \/ RebootFastboot
    \/ PollUserspace
    \/ FinalCheckUserspace
    \/ FlashSuper
    \/ LockBootloader
    \/ FinalReboot

Spec == Init /\ [][Next]_vars

-----------------------------------------------------------------------------
(* find_partition_files on its own: the function applied to a bundle       *)
(* directory, which may hold images of another device as well.             *)

\* execute_flash is not running: the engine's variables keep their initial
\* values and pc names what runs instead
EngineIdle(label) ==
    /\ pc = label
    /\ skip_unlock = FALSE
    /\ lock_bootloader = FALSE
    /\ bundle_exists = FALSE
    /\ bundle_path = "None"
    /\ current_state = "INIT"
    /\ progress_log = <<>>
    /\ cmds = <<>>
    /\ result = "none"
    /\ wait_site = "none"
    /\ tick = 0
    /\ core_i = 0
    /\ core_flash_count = 0
    /\ super_idx = 0
    /\ waits = <<>>
    /\ faults = 0

\* the codename find_partition_files is called for: panther
codename == <<112, 97, 110, 116, 104, 101, 114>>

\* bootloader-cheetah-x.img, radio-cheetah-y.img
OtherBootloaderFile == [part |-> "bootloader", wild |-> <<99, 104, 101, 101, 116, 97, 104, 45, 120>>]
OtherRadioFile == [part |-> "radio", wild |-> <<99, 104, 101, 101, 116, 97, 104, 45, 121>>]

\* the directories find_partition_files is applied to
PlanBundles ==
    SUBSET {BootloaderFile, OtherBootloaderFile, RadioFile, OtherRadioFile,
            FixedFile("boot"), SuperFile(1), SuperFile(2), SuperFile(MaxSuperSuffix)}

PlanInit ==
    /\ EngineIdle("find_partition_files")
    /\ bundle \in PlanBundles
    /\ partition_files = [p \in {} |-> NoFile]
    /\ WaitIdle
    /\ CallerIdle

\* partition_files = build_manager.find_partition_files(bundle_path)
find_partition_files_call ==
    /\ pc = "find_partition_files"
    /\ pc' = "found"
    /\ partition_files' = find_partition_files(bundle)
    /\ UNCHANGED <<wait_vars, caller_vars, inputs, bundle_path, current_state, progress_log, cmds,
                   result, wait_site, tick, core_i, core_flash_count, super_idx,
                   waits, faults>>

PlanNext == find_partition_files_call

PlanSpec == PlanInit /\ [][PlanNext]_vars

-----------------------------------------------------------------------------
(* flash_cli.main: one run of execute_flash, then the process exits        *)

\* mutant: the process exits with 0 whatever the result
sys_exit_AlwaysZero ==
    /\ pc = "done"
    /\ pc' = "exited"
    /\ exit_code' = 0
    /\ UNCHANGED <<wait_vars, flasher_vars, job_vars, pair_vars, inputs, bundle_path, partition_files, current_state,
                   progress_log, cmds, result, wait_site, tick, core_i,
                   core_flash_count, super_idx, waits, faults>>

\* sys.exit(0 if result["success"] else 1)
sys_exit ==
    /\ pc = "done"
    /\ pc' = "exited"
    /\ exit_code' = IF result.success THEN 0 ELSE 1
    /\ UNCHANGED <<wait_vars, flasher_vars, job_vars, pair_vars, inputs, bundle_path, partition_files, current_state,
                   progress_log, cmds, result, wait_site, tick, core_i,
                   core_flash_count, super_idx, waits, faults>>

\* main called with --skip-unlock or without, --lock-bootloader or without
CliInit == Init

CliNext == Next \/ sys_exit

CliSpec == CliInit /\ [][CliNext]_vars

-----------------------------------------------------------------------------
(* flasher.py main: the detection of the device in fastboot mode before    *)
(* the flashing steps (run without --skip-unlock)                          *)

\* stderr of the CompletedProcess _run_fastboot makes up on TimeoutExpired
TimedOutText == "Command timed out after 10s"

\* what _run_fastboot(["devices"], timeout=10) returns
FlasherRuns ==
    { [returncode |-> rc, stdout |-> o, stderr |-> ""] : rc \in {0, 1}, o \in DevicesOut }
    \cup { [returncode |-> -1, stdout |-> "", stderr |-> TimedOutText] }

\* output = stdout, or stderr when stdout is empty
Output(r) == IF r.stdout # "" THEN r.stdout ELSE r.stderr

\* fastboot_devices: the serial of every line with a tab and "fastboot";
\* of a line without a tab, its first alphanumeric word longer than 5
fastboot_devices(output) ==
    IF output = TimedOutText THEN {"Command"}
    ELSE {d[1] : d \in Listed(output)}

\* _run_fastboot: "-s <serial>" when _use_serial_flag and device_serial
Target(flag, device_serial) == IF flag /\ device_serial # "None" THEN device_serial ELSE "None"

FlasherCmd(op, flag, device_serial, r) ==
    [op |-> op, target |-> Target(flag, device_serial),
     returncode |-> r.returncode, output |-> Output(r)]

\* GrapheneFlasher(..., device_serial=args.device_serial)
FlasherInit ==
    /\ EngineIdle("off")
    /\ bundle = {}
    /\ partition_files = [p \in {} |-> NoFile]
    /\ WaitIdle
    /\ CliIdle
    /\ JobIdle
    /\ PairIdle
    /\ \E serial \in {"None", "serial"} :
          flasher = [pc |-> "devices_all", args_device_serial |-> serial,
                     device_serial |-> serial, _use_serial_flag |-> TRUE,
                     output_all |-> "", attempt |-> 0, device_in_fastboot |-> FALSE]
    /\ f_cmds = <<>>

\* result_all = _run_fastboot(["devices"]) with the serial flag disabled
detect_all ==
    /\ flasher.pc = "devices_all"
    /\ \E r \in FlasherRuns :
        /\ f_cmds' = Append(f_cmds, FlasherCmd("devices", FALSE, flasher.device_serial, r))
        /\ flasher' = [flasher EXCEPT !.pc = "attempt", !._use_serial_flag = TRUE,
                                      !.output_all = Output(r)]
    /\ UNCHANGED <<engine_vars, wait_vars, job_vars, pair_vars, exit_code>>

\* the body of "for attempt in range(3)" once the listing is known
Detected(f, found) ==
    IF found = {} THEN [f EXCEPT !.attempt = @ + 1]
    ELSE IF f.device_serial # "None"
    THEN IF f.device_serial \in found
         THEN [f EXCEPT !.device_in_fastboot = TRUE, !.pc = "after_loop"]
         ELSE IF Cardinality(found) = 1
         THEN [f EXCEPT !.device_serial = CHOOSE d \in found : TRUE,
                        !.device_in_fastboot = TRUE, !.pc = "after_loop"]
         ELSE [f EXCEPT !.attempt = @ + 1]
    ELSE IF Cardinality(found) = 1
         THEN [f EXCEPT !.device_serial = CHOOSE d \in found : TRUE,
                        !.device_in_fastboot = TRUE, !.pc = "after_loop"]
         ELSE [f EXCEPT !.device_in_fastboot = TRUE, !.pc = "exit"]

\* one attempt of the detection loop: fastboot devices, with -s when a
\* serial is set
detect_attempt ==
    /\ flasher.pc = "attempt"
    /\ flasher.attempt < 3
    /\ \E r \in FlasherRuns :
        LET flag == flasher.device_serial # "None"
            output == IF Output(r) = "" THEN flasher.output_all ELSE Output(r)
            f == [flasher EXCEPT !._use_serial_flag = flag]
        IN  /\ f_cmds' = Append(f_cmds, FlasherCmd("devices", flag, flasher.device_serial, r))
            /\ flasher' = IF r.returncode = 0 \/ output # ""
                          THEN Detected(f, fastboot_devices(output))
                          ELSE [f EXCEPT !.attempt = @ + 1]
    /\ UNCHANGED <<engine_vars, wait_vars, job_vars, pair_vars, exit_code>>

\* the loop is over without a device
detect_exhausted ==
    /\ flasher.pc = "attempt"
    /\ flasher.attempt >= 3
    /\ flasher' = [flasher EXCEPT !.pc = "after_loop"]
    /\ UNCHANGED <<engine_vars, wait_vars, job_vars, pair_vars, exit_code, f_cmds>>

\* after the loop: with a serial and no device found, the direct check
\* fastboot getvar unlocked, then the run proceeds anyway
detect_direct ==
    /\ flasher.pc = "after_loop"
    /\ ~flasher.device_in_fastboot
    /\ flasher.device_serial # "None"
    /\ \E r \in FlasherRuns :
        f_cmds' = Append(f_cmds, FlasherCmd("getvar unlocked", flasher._use_serial_flag,
                                            flasher.device_serial, r))
    /\ flasher' = [flasher EXCEPT !.device_in_fastboot = TRUE]
    /\ UNCHANGED <<engine_vars, wait_vars, job_vars, pair_vars, exit_code>>

\* no device in fastboot and no serial: step1_preflight_checks, adb version
step1_preflight_checks ==
    /\ flasher.pc = "after_loop"
    /\ ~flasher.device_in_fastboot
    /\ flasher.device_serial = "None"
    /\ \E r \in FlasherRuns :
        f_cmds' = Append(f_cmds, FlasherCmd("adb version", TRUE, flasher.device_serial, r))
    /\ flasher' = [flasher EXCEPT !.pc = "preflight"]
    /\ UNCHANGED <<engine_vars, wait_vars, job_vars, pair_vars, exit_code>>

\* the first fastboot command of the steps after the detection:
\* step2_validate_fastboot_state, fastboot --version
step2_validate_fastboot_state ==
    /\ flasher.pc = "after_loop"
    /\ flasher.device_in_fastboot
    /\ \E r \in FlasherRuns :
        f_cmds' = Append(f_cmds, FlasherCmd("--version", flasher._use_serial_flag,
                                            flasher.device_serial, r))
    /\ flasher' = [flasher EXCEPT !.pc = "validated"]
    /\ UNCHANGED <<engine_vars, wait_vars, job_vars, pair_vars, exit_code>>

FlasherNext ==
    \/ detect_all
    \/ detect_attempt
    \/ detect_exhausted
    \/ detect_direct
    \/ step1_preflight_checks
    \/ step2_validate_fastboot_state

FlasherSpec == FlasherInit /\ [][FlasherNext]_vars

-----------------------------------------------------------------------------
(* utils/flash.py: one job of flash_jobs.  Its thread runs _run_flash,     *)
(* which starts the bundle's flash script with Popen and waits for it; the *)
(* script issues its flash commands one after the other; the API may call  *)
(* cancel_flash_job at any moment.                                         *)

\* start_flash_job has stored the job and started its thread
JobInit ==
    /\ EngineIdle("off")
    /\ bundle = {}
    /\ partition_files = [p \in {} |-> NoFile]
    /\ WaitIdle
    /\ CliIdle
    /\ FlasherIdle
    /\ PairIdle
    /\ \E dry_run \in BOOLEAN :
          job = [status |-> "starting", process |-> "None", dry_run |-> dry_run,
                 logs |-> <<>>]
    /\ runner = "start"
    /\ proc = [state |-> "none"]
    /\ stops = <<>>
    /\ stream = [pc |-> "loop", last_log_count |-> 0, received |-> <<>>]

\* _run_flash up to Popen: the script is missing, the run is a dry run, or
\* the job is running
\* a line of job["logs"]: its text and, for a line of the script's output,
\* the number of the command it reports
Line(text) == <<text, 0>>

\* the lines _run_flash appends after it has set job["status"], and where
\* it goes on
StatusLogs ==
    [log_no_script |-> [lines |-> <<Line("ERROR: Flash script not found")>>,
                        then |-> "returned"],
     log_dry_run   |-> [lines |-> <<Line("[DRY RUN] Would execute"), Line("[DRY RUN] Device")>>,
                        then |-> "returned"],
     log_exception |-> [lines |-> <<Line("ERROR")>>, then |-> "finally"],
     log_status    |-> [lines |-> <<IF proc.state # "none" /\ proc.returncode = 0
                                    THEN Line("Flash completed successfully")
                                    ELSE Line("Flash failed with exit code")>>,
                        then |-> "finally"]]

run_flash_begin ==
    /\ runner = "start"
    /\ \E script_exists \in BOOLEAN :
        IF ~script_exists
        THEN job' = [job EXCEPT !.status = "failed"] /\ runner' = "log_no_script"
        ELSE IF job.dry_run
        THEN job' = [job EXCEPT !.status = "completed"] /\ runner' = "log_dry_run"
        ELSE /\ job' = [job EXCEPT !.status = "running",
                                   !.logs = @ \o <<Line("Starting flash process"),
                                                   Line("Using bundle"), Line("Command"),
                                                   Line("Fastboot path")>>]
             /\ runner' = "Popen"
    /\ UNCHANGED <<engine_vars, wait_vars, pair_vars, exit_code, flasher_vars, proc, stops, stream>>

\* process = subprocess.Popen(...); job["process"] = process, or Popen raises
run_flash_popen ==
    /\ runner = "Popen"
    /\ \E started \in BOOLEAN :
        IF started
        THEN /\ proc' = [state |-> "running", step |-> 0, in_flight |-> FALSE,
                         returncode |-> 0, outcomes |-> <<>>, stdout |-> <<>>]
             /\ job' = [job EXCEPT !.process = "process",
                                   !.logs = Append(@, Line("Flash process started"))]
             /\ runner' = "stream"
        ELSE /\ job' = [job EXCEPT !.status = "failed"]
             /\ runner' = "log_exception"
             /\ UNCHANGED proc
    /\ UNCHANGED <<engine_vars, wait_vars, pair_vars, exit_code, flasher_vars, stops, stream>>

\* the streaming loop: the process runs and a line of its output is ready
run_flash_stream_reads ==
    /\ runner = "stream"
    /\ proc.state = "running"
    /\ proc.stdout # <<>>
    /\ job' = [job EXCEPT !.logs = Append(@, Head(proc.stdout))]
    /\ proc' = [proc EXCEPT !.stdout = Tail(@)]
    /\ UNCHANGED <<engine_vars, wait_vars, pair_vars, exit_code, flasher_vars, runner, stops, stream>>

\* the streaming loop: process.poll() is not None; the rest of the output
\* is read up to the end of the pipe, which a command still in flight keeps
\* open, then break
run_flash_stream_ends ==
    /\ runner = "stream"
    /\ proc.state # "running"
    /\ ~proc.in_flight
    /\ job' = [job EXCEPT !.logs = @ \o proc.stdout]
    /\ proc' = [proc EXCEPT !.stdout = <<>>]
    /\ runner' = "poll"
    /\ UNCHANGED <<engine_vars, wait_vars, pair_vars, exit_code, flasher_vars, stops, stream>>

\* return_code = process.poll(): completed if 0, failed otherwise
run_flash_status ==
    /\ runner = "poll"
    /\ job' = [job EXCEPT !.status = IF proc.returncode = 0 THEN "completed" ELSE "failed"]
    /\ runner' = "log_status"
    /\ UNCHANGED <<engine_vars, wait_vars, pair_vars, exit_code, flasher_vars, proc, stops, stream>>

\* job["logs"].append(...), the statement after an assignment to
\* job["status"]: the message of the missing script, of the dry run, of the
\* exception or of the return code
run_flash_append_log ==
    /\ runner \in DOMAIN StatusLogs
    /\ job' = [job EXCEPT !.logs = @ \o StatusLogs[runner].lines]
    /\ runner' = StatusLogs[runner].then
    /\ UNCHANGED <<engine_vars, wait_vars, pair_vars, exit_code, flasher_vars, proc, stops, stream>>

\* finally: job["process"] = None
run_flash_finally ==
    /\ runner = "finally"
    /\ job' = [job EXCEPT !.process = "None"]
    /\ runner' = "returned"
    /\ UNCHANGED <<engine_vars, wait_vars, pair_vars, exit_code, flasher_vars, proc, stops, stream>>

\* the script dispatches its next flash command
script_dispatch ==
    /\ proc.state = "running"
    /\ ~proc.in_flight
    /\ proc.step < MaxScriptFlashes
    /\ proc' = [proc EXCEPT !.in_flight = TRUE]
    /\ UNCHANGED <<engine_vars, wait_vars, pair_vars, exit_code, flasher_vars, job, runner, stops, stream>>

\* the command in flight returns to the script; a failed command ends the
\* script with a non-zero code
script_command_returns ==
    /\ proc.state = "running"
    /\ proc.in_flight
    /\ \E ok \in BOOLEAN :
        proc' = IF ok
                THEN [proc EXCEPT !.in_flight = FALSE, !.step = @ + 1,
                                  !.outcomes = Append(@, "completed"),
                                  !.stdout = Append(@, <<"OKAY", proc.step>>)]
                ELSE [proc EXCEPT !.in_flight = FALSE, !.state = "exited",
                                  !.returncode = 1, !.outcomes = Append(@, "failed"),
                                  !.stdout = Append(@, <<"FAILED", proc.step>>)]
    /\ UNCHANGED <<engine_vars, wait_vars, pair_vars, exit_code, flasher_vars, job, runner, stops, stream>>

\* the script has issued all its commands
script_exit ==
    /\ proc.state = "running"
    /\ ~proc.in_flight
    /\ proc.step >= MaxScriptFlashes
    /\ proc' = [proc EXCEPT !.state = "exited"]
    /\ UNCHANGED <<engine_vars, wait_vars, pair_vars, exit_code, flasher_vars, job, runner, stops, stream>>

\* the script was terminated with a command in flight: what becomes of the
\* write is not decided by this code
orphan_command_ends ==
    /\ proc.state = "terminated"
    /\ proc.in_flight
    /\ \E o \in {"completed", "failed", "interrupted"} :
        proc' = [proc EXCEPT !.in_flight = FALSE, !.outcomes = Append(@, o),
                             !.stdout = IF o = "interrupted" THEN @
                                        ELSE Append(@, <<o, proc.step>>)]
    /\ UNCHANGED <<engine_vars, wait_vars, pair_vars, exit_code, flasher_vars, job, runner, stops, stream>>

\* process.terminate(): SIGTERM for a script that is running, nothing for
\* one that has exited
terminate(p) ==
    IF p.state = "running" THEN [p EXCEPT !.state = "terminated", !.returncode = -15]
    ELSE p

\* cancel_flash_job(job_id): with a process, terminate it and set the status
\* to cancelled (returns True); without one, return False
cancel_flash_job ==
    /\ job.status # "none"
    /\ IF job.process # "None"
       THEN /\ proc' = terminate(proc)
            /\ stops' = IF proc.state = "running"
                        THEN Append(stops, [in_flight |-> proc.in_flight, step |-> proc.step])
                        ELSE stops
            /\ job' = [job EXCEPT !.status = "cancelled"]
       ELSE UNCHANGED <<job, proc, stops, stream>>
    /\ UNCHANGED <<engine_vars, wait_vars, pair_vars, exit_code, flasher_vars, runner, stream>>

\* stream_flash_job.event_generator, "Send new logs": the lines after
\* last_log_count are taken from job["logs"] and yielded one by one
stream_send_logs ==
    /\ stream.pc = "loop"
    /\ stream' = IF Len(job.logs) > stream.last_log_count
                 THEN [stream EXCEPT
                          !.received = @ \o SubSeq(job.logs, stream.last_log_count + 1,
                                                   Len(job.logs)),
                          !.pc = "count"]
                 ELSE [stream EXCEPT !.pc = "status"]
    /\ UNCHANGED <<engine_vars, wait_vars, pair_vars, exit_code, flasher_vars, job, runner, proc, stops>>

\* last_log_count = len(job["logs"]), after the last yield
stream_count_logs ==
    /\ stream.pc = "count"
    /\ stream' = [stream EXCEPT !.last_log_count = Len(job.logs), !.pc = "status"]
    /\ UNCHANGED <<engine_vars, wait_vars, pair_vars, exit_code, flasher_vars, job, runner, proc, stops>>

\* "Send status updates": a status of completed, failed or cancelled is
\* sent, then the close event, and the loop ends; otherwise a heartbeat,
\* the sleep and the next round
stream_status ==
    /\ stream.pc = "status"
    /\ stream' = [stream EXCEPT
                     !.pc = IF job.status \in {"completed", "failed", "cancelled"}
                            THEN "closed" ELSE "loop"]
    /\ UNCHANGED <<engine_vars, wait_vars, pair_vars, exit_code, flasher_vars, job, runner, proc, stops>>

JobNext ==
    \/ run_flash_begin
    \/ run_flash_popen
    \/ run_flash_stream_reads
    \/ run_flash_stream_ends
    \/ run_flash_status
    \/ run_flash_append_log
    \/ run_flash_finally
    \/ script_dispatch
    \/ script_command_returns
    \/ script_exit
    \/ orphan_command_ends
    \/ cancel_flash_job
    \/ stream_send_logs
    \/ stream_count_logs
    \/ stream_status

JobSpec == JobInit /\ [][JobNext]_vars

-----------------------------------------------------------------------------
(* Two jobs for two device serials, each with its own PythonTransport and  *)
(* GrapheneOSFlashEngine, on two threads.  The engine variables are those  *)
(* of the job whose thread runs; parked holds the other job's engine.      *)

\* the attributes of the running job's engine and transport, and the
\* position and locals of its execute_flash
Instance ==
    [pc |-> pc, skip_unlock |-> skip_unlock, lock_bootloader |-> lock_bootloader,
     bundle_exists |-> bundle_exists, bundle |-> bundle, bundle_path |-> bundle_path,
     partition_files |-> partition_files, current_state |-> current_state,
     progress_log |-> progress_log, cmds |-> cmds, result |-> result,
     wait_site |-> wait_site, tick |-> tick, core_i |-> core_i,
     core_flash_count |-> core_flash_count, super_idx |-> super_idx,
     waits |-> waits, faults |-> faults]

\* GrapheneOSFlashEngine(transport, build_manager, device_serial) and the
\* arguments of its execute_flash
NewInstance(su, lb, b) ==
    [pc |-> "start", skip_unlock |-> su, lock_bootloader |-> lb,
     bundle_exists |-> TRUE, bundle |-> b, bundle_path |-> "None",
     partition_files |-> [p \in {} |-> NoFile], current_state |-> "INIT",
     progress_log |-> <<>>, cmds |-> <<>>, result |-> "none",
     wait_site |-> "none", tick |-> 0, core_i |-> 0,
     core_flash_count |-> 0, super_idx |-> 0, waits |-> <<>>, faults |-> 0]

\* the bundles of the two jobs
PairBundles == { {BootloaderFile, FixedFile("boot"), SuperFile(1)} }

\* mutant: current_state is one attribute for all engines
Resume_SharedState(inst) ==
    /\ pc' = inst.pc
    /\ skip_unlock' = inst.skip_unlock
    /\ lock_bootloader' = inst.lock_bootloader
    /\ bundle_exists' = inst.bundle_exists
    /\ bundle' = inst.bundle
    /\ bundle_path' = inst.bundle_path
    /\ partition_files' = inst.partition_files
    /\ current_state' = current_state
    /\ progress_log' = inst.progress_log
    /\ cmds' = inst.cmds
    /\ result' = inst.result
    /\ wait_site' = inst.wait_site
    /\ tick' = inst.tick
    /\ core_i' = inst.core_i
    /\ core_flash_count' = inst.core_flash_count
    /\ super_idx' = inst.super_idx
    /\ waits' = inst.waits
    /\ faults' = inst.faults

\* the thread of the engine inst goes on: every attribute it reads and
\* writes is its own
Resume(inst) ==
    /\ pc' = inst.pc
    /\ skip_unlock' = inst.skip_unlock
    /\ lock_bootloader' = inst.lock_bootloader
    /\ bundle_exists' = inst.bundle_exists
    /\ bundle' = inst.bundle
    /\ bundle_path' = inst.bundle_path
    /\ partition_files' = inst.partition_files
    /\ current_state' = inst.current_state
    /\ progress_log' = inst.progress_log
    /\ cmds' = inst.cmds
    /\ result' = inst.result
    /\ wait_site' = inst.wait_site
    /\ tick' = inst.tick
    /\ core_i' = inst.core_i
    /\ core_flash_count' = inst.core_flash_count
    /\ super_idx' = inst.super_idx
    /\ waits' = inst.waits
    /\ faults' = inst.faults

\* the running job's engine is inst
Running(inst) ==
    /\ pc = inst.pc
    /\ skip_unlock = inst.skip_unlock
    /\ lock_bootloader = inst.lock_bootloader
    /\ bundle_exists = inst.bundle_exists
    /\ bundle = inst.bundle
    /\ bundle_path = inst.bundle_path
    /\ partition_files = inst.partition_files
    /\ current_state = inst.current_state
    /\ progress_log = inst.progress_log
    /\ cmds = inst.cmds
    /\ result = inst.result
    /\ wait_site = inst.wait_site
    /\ tick = inst.tick
    /\ core_i = inst.core_i
    /\ core_flash_count = inst.core_flash_count
    /\ super_idx = inst.super_idx
    /\ waits = inst.waits
    /\ faults = inst.faults

PairInit ==
    /\ \E b \in PairBundles : Running(NewInstance(TRUE, TRUE, b))
    /\ WaitIdle
    /\ CliIdle
    /\ FlasherIdle
    /\ JobIdle
    /\ active = "serial"
    /\ parked = [NewInstance(FALSE, FALSE, {FixedFile("boot")})
                    EXCEPT !.faults = MaxFaults - PairFaults]

\* the scheduler lets the other job's thread run
Switch ==
    /\ active # "none"
    /\ parked.pc # "done"
    /\ active' = IF active = "serial" THEN "other" ELSE "serial"
    /\ parked' = Instance
    /\ Resume(parked)
    /\ UNCHANGED <<wait_vars, exit_code, flasher_vars, job_vars>>

PairNext == Next \/ Switch

PairSpec == PairInit /\ [][PairNext]_vars

-----------------------------------------------------------------------------
(* Runs under fairness: execute_flash and the polling loops are sequential *)
(* code on one thread, so a step that can be taken is taken.               *)

\* the bundles of the runs under fairness: split super images numbered
\* from 1
FairBundles == {b \in Bundles : SuperFile(2) \in b => SuperFile(1) \in b}

FairInit == (Init /\ bundle \in FairBundles) \/ WaitInit

FairNext == Next \/ WaitNext

FairSpec == FairInit /\ [][FairNext]_vars /\ WF_vars(FairNext)

-----------------------------------------------------------------------------
(* Vocabulary of the properties *)

\* cmds only grows, one call at a time: every call of a run is the last call
\* of an earlier state, so a property of the last call and the calls before
\* it that holds in every reachable state holds of every pair of calls.
Idx == 1..Len(cmds)

Last == Len(cmds)

Before == 1..(Len(cmds) - 1)

Finished == pc = "done"

IsFlash(c) == c.op = "flash"

IsFirmware(c) == IsFlash(c) /\ c.part \in {"bootloader", "radio"}

IsCoreFlash(c) == IsFlash(c) /\ c.part \in SeqRange(core_partitions)

IsSuperFlash(c) == IsFlash(c) /\ c.part = "super"

\* a reboot command of any form
IsReboot(c) == c.op \in {"reboot-bootloader", "reboot bootloader", "reboot fastboot", "reboot"}

\* a transport call whose answer shows the device in bootloader fastboot
ConfirmsFastboot(c) ==
    /\ c.success
    /\ \/ c.op = "getvar product"
       \/ c.op = "devices" /\ c.out = "serial\tfastboot"

StateOrder == <<"INIT", "ADB", "FASTBOOT", "FASTBOOT_FLASH", "FASTBOOTD",
                "FASTBOOTD_FLASH", "FINAL", "DONE">>

Rank(st) == CHOOSE n \in 1..Len(StateOrder) : StateOrder[n] = st

\* b may be recorded right after a
StepAllowed(a, b) ==
    /\ a \notin {"ERROR", "DONE"}
    /\ \/ b = "ERROR"
       \/ b = a
       \/ Rank(b) = Rank(a) + 1
       \/ a = "INIT" /\ b = "FASTBOOT" /\ skip_unlock

-----------------------------------------------------------------------------
\* C1: the FlashState values recorded during a run start with INIT and go
\* through INIT, ADB (left out exactly when skip_unlock), FASTBOOT,
\* FASTBOOT_FLASH, FASTBOOTD, FASTBOOTD_FLASH, FINAL, DONE: each recorded
\* value is the previous one (a progress update within a state), its
\* successor, or ERROR; nothing is recorded after ERROR or DONE.
C1_StateSequence ==
    /\ progress_log # <<>> => progress_log[1].state = "INIT"
    /\ \A i \in 1..(Len(progress_log) - 1) :
          StepAllowed(progress_log[i].state, progress_log[i + 1].state)
    /\ progress_log # <<>> => current_state = progress_log[Len(progress_log)].state

C1_Witness ==
    /\ Finished
    /\ ~skip_unlock
    /\ [i \in 1..Len(progress_log) |-> progress_log[i].state]
         = <<"INIT", "ADB", "FASTBOOT", "FASTBOOT_FLASH", "FASTBOOT_FLASH",
             "FASTBOOT_FLASH", "FASTBOOTD", "FASTBOOTD_FLASH", "FASTBOOTD_FLASH",
             "FASTBOOTD_FLASH", "FINAL", "DONE">>

\* C2: in FASTBOOT_FLASH the bootloader flash comes before the radio flash
\* and both before every core flash, each at most once; a reboot-bootloader
\* is issued only right after a successful firmware flash, and is the next
\* command after it; between a reboot-bootloader and any later flash the
\* device has answered in bootloader fastboot.
Stage(c) == IF c.part = "bootloader" THEN 1 ELSE IF c.part = "radio" THEN 2 ELSE 3

C2_BootloaderPhaseOrder ==
    /\ (cmds # <<>> /\ IsFlash(cmds[Last]) /\ cmds[Last].verb = "fastboot")
       => \A i \in Before :
             IsFlash(cmds[i])
             => /\ Stage(cmds[i]) <= Stage(cmds[Last])
                /\ IsFirmware(cmds[i]) => Stage(cmds[i]) < Stage(cmds[Last])
    /\ \A i \in Idx :
          cmds[i].op = "reboot-bootloader"
          => i > 1 /\ IsFirmware(cmds[i - 1]) /\ cmds[i - 1].success
    /\ \A i \in Before :
          IsFirmware(cmds[i]) => cmds[i + 1].op = "reboot-bootloader"
    /\ (cmds # <<>> /\ IsFlash(cmds[Last]))
       => \A i \in Before :
             cmds[i].op = "reboot-bootloader"
             => /\ cmds[i].success
                /\ \E m \in (i + 1)..(Last - 1) : ConfirmsFastboot(cmds[m])

C2_Witness ==
    /\ Len(cmds) = 10
    /\ [i \in 1..10 |-> cmds[i].op] =
          <<"getvar product", "flash", "reboot-bootloader", "getvar product",
            "devices", "flash", "reboot-bootloader", "getvar product", "flash", "flash">>
    /\ [i \in 1..10 |-> cmds[i].part] =
          <<"", "bootloader", "", "", "", "radio", "", "", "boot", "dtbo">>
    /\ ~cmds[4].success /\ ConfirmsFastboot(cmds[5]) /\ ConfirmsFastboot(cmds[8])

\* C3: the reboot commands issued in state FASTBOOT_FLASH are as many as the
\* firmware images flashed, one fewer while the reboot after the last one is
\* still to come, hence at most two; when "reboot fastboot" is issued they
\* are equal; no reboot is issued in FASTBOOT_FLASH after a core flash.
PhaseReboots == {i \in Idx : IsReboot(cmds[i]) /\ cmds[i].state = "FASTBOOT_FLASH"}

FirmwareFlashed == {i \in Idx : IsFirmware(cmds[i]) /\ cmds[i].success}

C3_OnlyMandatedReboots ==
    /\ Cardinality(PhaseReboots) <= Cardinality(FirmwareFlashed)
    /\ Cardinality(FirmwareFlashed) <= Cardinality(PhaseReboots) + 1
    /\ Cardinality(PhaseReboots) <= 2
    /\ (\E i \in Idx : cmds[i].op = "reboot fastboot" \/ IsCoreFlash(cmds[i]))
          => Cardinality(PhaseReboots) = Cardinality(FirmwareFlashed)
    /\ \A j \in Idx :
          (IsReboot(cmds[j]) /\ cmds[j].state = "FASTBOOT_FLASH")
          => \A i \in 1..(j - 1) : ~IsCoreFlash(cmds[i])

C3_Witness ==
    /\ Cardinality(PhaseReboots) = 2
    /\ \E i, j \in Idx : i < j /\ IsCoreFlash(cmds[i]) /\ cmds[j].op = "reboot fastboot"

\* C4: a flash command of the bootloader-fastboot phase that returns
\* success=false is the last transport call of the run, and the run has
\* returned success=false with final_state ERROR.
C4_FlashFailureAborts ==
    \A i \in Idx :
        (IsFlash(cmds[i]) /\ cmds[i].verb = "fastboot" /\ ~cmds[i].success /\ ~cmds[i].raised)
        => /\ i = Len(cmds)
           /\ Finished
           /\ result = Failure("Failed to flash partitions in bootloader fastboot")

C4_Witness ==
    /\ Finished
    /\ Len(cmds) > 2
    /\ LET c == cmds[Len(cmds)]
       IN  IsFlash(c) /\ c.part = "dtbo" /\ ~c.success /\ ~c.raised
    /\ FixedFile("vbmeta") \in bundle
    /\ result.final_state = "ERROR"

\* C5: no image file is the argument of two flash commands; the unlock
\* request, the reboot to the bootloader, "reboot fastboot", the lock command
\* and the final reboot are issued at most once, reboot-bootloader at most
\* once per firmware image flashed, and no command other than a poll is
\* followed by the same command.
Count(op) == Cardinality({i \in Idx : cmds[i].op = op})

Polling == {"devices", "getvar product", "getvar is-userspace"}

C5_NoRetry ==
    /\ (cmds # <<>> /\ IsFlash(cmds[Last]))
       => \A i \in Before : IsFlash(cmds[i]) => cmds[i].file # cmds[Last].file
    /\ \A op \in {"flashing unlock", "reboot bootloader", "reboot fastboot",
                  "flashing lock", "reboot", "getprop ro.boot.flash.locked"} :
          Count(op) <= 1
    /\ Count("reboot-bootloader") <= Cardinality(FirmwareFlashed)
    /\ \A i \in Before :
          cmds[i].op \notin Polling
          => ~(/\ cmds[i].verb = cmds[i + 1].verb
               /\ cmds[i].op = cmds[i + 1].op
               /\ cmds[i].file = cmds[i + 1].file)

C5_Witness ==
    /\ Finished
    /\ \E i \in Idx : IsSuperFlash(cmds[i]) /\ ~cmds[i].success /\ i > 10

\* the number written in a file name's wildcard part
RECURSIVE Number(_)
Number(w) ==
    IF w = <<>> THEN 0
    ELSE Number(SubSeq(w, 1, Len(w) - 1)) * 10 + (w[Len(w)] - 48)

SuperFlashes == {i \in Idx : IsSuperFlash(cmds[i])}

\* C6: the split super images are flashed in ascending order of their
\* numeric suffix: a super flash has a larger suffix than every super flash
\* before it.
C6_NumericSuperOrder ==
    (cmds # <<>> /\ IsSuperFlash(cmds[Last]))
    => \A i \in Before :
          IsSuperFlash(cmds[i]) => Number(cmds[i].file.wild) < Number(cmds[Last].file.wild)

\* C7: the super flashes go through fastbootd_command in state
\* FASTBOOTD_FLASH; the n-th of them flashes the n-th image of the plan's
\* super list; they are consecutive transport calls; one that returns
\* success=false is the last call of the run, which has returned ERROR; when
\* FINAL is reached every image of the list has been flashed.
C7_SuperFlashing ==
    /\ \A i \in SuperFlashes :
          /\ cmds[i].verb = "fastbootd"
          /\ cmds[i].state = "FASTBOOTD_FLASH"
          /\ "super" \in DOMAIN partition_files
          /\ LET n == Cardinality({j \in SuperFlashes : j <= i})
             IN  /\ n <= Len(partition_files["super"])
                 /\ cmds[i].file = partition_files["super"][n]
          /\ (i - 1) \notin SuperFlashes => \A j \in SuperFlashes : j >= i
          /\ (~cmds[i].success /\ ~cmds[i].raised)
             => /\ i = Last
                /\ Finished
                /\ result = Failure("Failed to flash super partition in fastbootd")
    /\ current_state \in {"FINAL", "DONE"}
       => /\ "super" \in DOMAIN partition_files
          /\ Cardinality(SuperFlashes) = Len(partition_files["super"])
          /\ \A i \in SuperFlashes : cmds[i].success

C7_Witness ==
    /\ Finished
    /\ result = Success
    /\ Cardinality(SuperFlashes) = 3

\* C8: a super flash is issued only after a successful "reboot fastboot" and
\* a later getvar is-userspace that succeeded and reported yes; userspace
\* fastboot is queried at most MaxTicks + 1 times, and when the poll gives
\* up the run has returned ERROR and no super image was flashed.
ReportsUserspace(c) ==
    c.op = "getvar is-userspace" /\ c.success /\ c.out = "is-userspace: yes"

C8_SuperOnlyInUserspace ==
    /\ (cmds # <<>> /\ IsSuperFlash(cmds[Last]))
       => \E i, m \in Before :
             /\ i < m
             /\ cmds[i].op = "reboot fastboot" /\ cmds[i].success
             /\ ReportsUserspace(cmds[m])
    /\ Count("getvar is-userspace") <= MaxTicks + 1
    /\ \A n \in 1..Len(waits) :
          (waits[n].site = "fastbootd" /\ ~waits[n].ok)
          => /\ Finished
             /\ result = Failure("Failed to enter fastbootd mode")
             /\ SuperFlashes = {}

C8_Witness ==
    /\ Finished
    /\ \E n \in 1..Len(waits) : waits[n].site = "fastbootd" /\ ~waits[n].ok
    /\ Count("getvar is-userspace") = MaxTicks + 1
    /\ \E i \in Idx : cmds[i].op = "getvar is-userspace" /\ cmds[i].out = "is-userspace: no"

NoFlashAttempted == \A i \in Idx : ~IsFlash(cmds[i])

\* C9 as stated: whenever wait_for_fastboot returns False, the run has
\* returned ERROR with the error of the fastboot-mode entry and no flash
\* command was attempted.
C9_AnyWaitTimeout ==
    \A n \in 1..Len(waits) :
        (waits[n].site # "fastbootd" /\ ~waits[n].ok)
        => /\ Finished
           /\ result = Failure("Failed to enter fastboot mode")
           /\ NoFlashAttempted

\* C9 amended: when the wait_for_fastboot of _enter_fastboot returns False,
\* the run has returned ERROR with "Failed to enter fastboot mode" and no
\* flash command was attempted; when the wait_for_fastboot after the unlock
\* request returns False, the same with "Failed to unlock bootloader".
C9_EnterWaitTimeout ==
    \A n \in 1..Len(waits) :
        ~waits[n].ok
        => /\ waits[n].site = "enter"
              => /\ Finished
                 /\ result = Failure("Failed to enter fastboot mode")
                 /\ NoFlashAttempted
           /\ waits[n].site = "unlock"
              => /\ Finished
                 /\ result = Failure("Failed to unlock bootloader")
                 /\ NoFlashAttempted

C9_Witness ==
    /\ Finished
    /\ \E n \in 1..Len(waits) : waits[n].site = "enter" /\ ~waits[n].ok
    /\ \E i \in Idx : cmds[i].op = "reboot bootloader"

\* C10: whenever a bounded wait returns failure, the run has returned ERROR
\* and no transport call follows the wait.
C10_WaitFailureTerminal ==
    \A n \in 1..Len(waits) :
        ~waits[n].ok
        => /\ Finished
           /\ result.final_state = "ERROR"
           /\ waits[n].at = Len(cmds)

-----------------------------------------------------------------------------
\* C13: with skip_unlock no unlock-status query and no "flashing unlock" is
\* issued, wait_for_fastboot is never called for the unlock, and ADB is
\* neither recorded as a state nor the state of any transport call.
C13_SkipUnlock ==
    skip_unlock
    => /\ \A i \in Idx :
             /\ cmds[i].op \notin {"getprop ro.boot.flash.locked", "flashing unlock"}
             /\ cmds[i].state # "ADB"
       /\ \A n \in 1..Len(waits) : waits[n].site # "unlock"
       /\ wait_site # "unlock"
       /\ \A i \in 1..Len(progress_log) : progress_log[i].state # "ADB"
       /\ current_state # "ADB"

C13_Witness ==
    /\ skip_unlock
    /\ Finished
    /\ result = Success
    /\ progress_log[2].state = "FASTBOOT"

-----------------------------------------------------------------------------
\* C15: "flashing unlock" is only ever the second call of a run, right after
\* a status query that did not succeed with the answer 0 (unlocked); when the
\* status query reports unlocked, no unlock request is issued, no unlock wait
\* is made, and the next recorded state is FASTBOOT with the fastboot probe
\* as the next call.
ReportsUnlocked(c) ==
    c.op = "getprop ro.boot.flash.locked" /\ c.success /\ c.out = "0"

C15_UnlockOnlyWhenLocked ==
    /\ \A i \in Idx :
          cmds[i].op = "flashing unlock"
          => /\ i = 2
             /\ ~skip_unlock
             /\ cmds[1].op = "getprop ro.boot.flash.locked"
             /\ ~cmds[1].raised
             /\ ~ReportsUnlocked(cmds[1])
    /\ (cmds # <<>> /\ ReportsUnlocked(cmds[1]))
       => /\ Count("flashing unlock") = 0
          /\ \A n \in 1..Len(waits) : waits[n].site # "unlock"
          /\ Len(progress_log) >= 3
          /\ progress_log[3].state = "FASTBOOT"
          /\ Len(cmds) >= 2 => cmds[2].op = "getvar product"

C15_Witness ==
    /\ Finished
    /\ result = Success
    /\ ReportsUnlocked(cmds[1])
    /\ [i \in 1..3 |-> progress_log[i].state] = <<"INIT", "ADB", "FASTBOOT">>

-----------------------------------------------------------------------------
\* C16: no transport call is made before the bundle is resolved, and when
\* the resolution fails the run has recorded INIT then ERROR, has returned
\* success false with final_state ERROR, and has made no transport call and
\* no wait.
C16_ResolutionFailure ==
    /\ pc \in {"start", "resolve"} => cmds = <<>> /\ waits = <<>>
    /\ (~bundle_exists /\ pc \notin {"start", "resolve"})
       => /\ Finished
          /\ result.success = FALSE
          /\ result.final_state = "ERROR"
          /\ current_state = "ERROR"
          /\ [i \in 1..Len(progress_log) |-> progress_log[i].state] = <<"INIT", "ERROR">>
          /\ cmds = <<>>
          /\ waits = <<>>
          /\ faults = 0

C16_Witness ==
    /\ ~bundle_exists
    /\ Finished
    /\ result = Failure("Bundle not found and download failed")

-----------------------------------------------------------------------------
\* C18: "flashing lock" is issued at most once, only when lock_bootloader is
\* set, and the final "reboot" at most once and as the last call; both only
\* in FINAL.  When every super image of the bundle was flashed successfully
\* and the run is over without a transport call having raised, the run has
\* returned success with DONE whatever the lock and the reboot returned, the
\* last call is the one final reboot, and the call before it is the lock
\* command exactly when the lock was requested.
SuperDone ==
    /\ super_images # <<>>
    /\ \A n \in 1..Len(super_images) :
          \E i \in Idx : /\ IsSuperFlash(cmds[i])
                         /\ cmds[i].file = super_images[n]
                         /\ cmds[i].success

NoCallRaised == \A i \in Idx : ~cmds[i].raised

-----------------------------------------------------------------------------
\* C19: for the bundle bootloader-panther-x, radio-panther-y, boot,
\* vendor_boot, dtbo, vbmeta, super_1, super_2, with skip_unlock and every
\* transport call answering with success at once, the finished run has
\* issued exactly two reboot-bootloader commands, both before the one
\* "reboot fastboot", has flashed super_1 before super_2, has flashed every
\* image of the bundle exactly once, and has returned success with DONE.
ScenarioBundle ==
    {BootloaderFile, RadioFile}
    \cup {FixedFile(p) : p \in {"boot", "vendor_boot", "dtbo", "vbmeta"}}
    \cup {SuperFile(1), SuperFile(2)}

Scenario ==
    /\ bundle_exists
    /\ bundle = ScenarioBundle
    /\ skip_unlock
    /\ faults = 0
    /\ Finished

FlashesOf(f) == {i \in Idx : IsFlash(cmds[i]) /\ cmds[i].file = f}

C19_EndToEnd ==
    Scenario
    => /\ Count("reboot-bootloader") = 2
       /\ Count("reboot fastboot") = 1
       /\ \A i, j \in Idx :
             (cmds[i].op = "reboot-bootloader" /\ cmds[j].op = "reboot fastboot") => i < j
       /\ \A f \in bundle : Cardinality(FlashesOf(f)) = 1
       /\ \A i \in Idx : IsFlash(cmds[i]) => cmds[i].file \in bundle /\ cmds[i].success
       /\ \A i \in FlashesOf(SuperFile(1)), j \in FlashesOf(SuperFile(2)) : i < j
       /\ result = Success
       /\ result.final_state = "DONE"
       /\ current_state = "DONE"

C19_Witness ==
    /\ Scenario
    /\ ~lock_bootloader
    /\ Len(cmds) = 16
    /\ cmds[Last].op = "reboot"

-----------------------------------------------------------------------------
\* C17: a bundle that has neither super images nor the full system, product,
\* vendor set is rejected when the plan is resolved: the run makes no
\* transport call at all and, once past the resolution, has returned ERROR.
FallbackSet == {FixedFile(p) : p \in {"system", "product", "vendor"}}

HasDynamicPartitions(b) == find_super(b) # <<>> \/ FallbackSet \subseteq b

C17_IncompletePlanRejected ==
    (bundle_exists /\ ~HasDynamicPartitions(bundle))
    => /\ cmds = <<>>
       /\ pc \notin {"start", "resolve"}
          => Finished /\ result.final_state = "ERROR"

-----------------------------------------------------------------------------
\* C20: the device mode that the answers of a run show: a successful adb
\* answer shows the booted OS; the serial listed by fastboot devices, a
\* successful getvar product and an accepted reboot to the bootloader show
\* (or lead to) bootloader fastboot; an accepted "reboot fastboot" and
\* is-userspace: yes show userspace fastboot.  Every state-changing command
\* goes through the verb of the mode that the latest such answer showed.
ModeShown(c) ==
    IF ~c.success THEN "unknown"
    ELSE IF c.op = "getprop ro.boot.flash.locked" THEN "adb"
    ELSE IF c.op \in {"reboot-bootloader", "reboot bootloader", "getvar product"}
         THEN "fastboot"
    ELSE IF c.op = "devices" /\ c.out = "serial\tfastboot" THEN "fastboot"
    ELSE IF c.op = "reboot fastboot" \/ ReportsUserspace(c) THEN "fastbootd"
    ELSE "unknown"

StateChanging(c) ==
    \/ IsFlash(c)
    \/ IsReboot(c)
    \/ c.op \in {"flashing unlock", "flashing lock"}

C20_VerbMatchesDeviceMode ==
    (cmds # <<>> /\ StateChanging(cmds[Last]))
    => LET shown == {j \in Before : ModeShown(cmds[j]) # "unknown"}
       IN  shown # {}
           => LET latest == CHOOSE j \in shown : \A m \in shown : m <= j
              IN  cmds[Last].verb = ModeShown(cmds[latest])

-----------------------------------------------------------------------------
\* C11: a polling loop returns False (or, for the final check of
\* _enter_fastbootd, leaves with the exception of its transport) only when
\* its overall timeout has elapsed and no poll result met the success
\* criterion; it returns True only on a result that meets the criterion;
\* and as soon as a result meets the criterion the loop has returned True.
\* So a poll that timed out, failed or came back empty never ends the wait.
C11_FailedTickNeverEndsWait ==
    /\ w_ret = "False" => w_elapsed >= w_call.timeout /\ ~w_met
    /\ w_ret = "raised"
       => w_elapsed >= w_call.timeout /\ ~w_met /\ w_call.fn = "_enter_fastbootd"
    /\ w_ret = "True" => MeetsCriterion(w_last.cmd, w_last.result)
    /\ w_met => w_ret = "True"
    /\ w_ret = "none" <=> w_pc # "returned"

C11_Witness ==
    /\ w_call.fn = "wait_for_fastboot"
    /\ w_ret = "True"
    /\ w_seen = {"timeout", "error", "empty", "other"}
    /\ w_elapsed < w_call.timeout

-----------------------------------------------------------------------------
\* C12: under fairness every run of execute_flash returns a result whose
\* final_state is DONE or ERROR, and every polling loop returns.
C12_EveryRunReturns ==
    <>(\/ Finished /\ result.final_state \in {"DONE", "ERROR"}
       \/ pc = "off" /\ w_ret # "none")

C12_Witness ==
    /\ Finished
    /\ result.final_state = "ERROR"
    /\ \E n \in 1..Len(waits) : waits[n].site = "unlock" /\ ~waits[n].ok

-----------------------------------------------------------------------------
\* C14: the wait for the unlock confirmation gives up only after about six
\* minutes: when the wait_for_fastboot that follows the unlock request
\* returns False, at least five minutes have passed since the request.
C14_UnlockWaitSixMinutes ==
    (w_call.site = "unlock" /\ w_ret = "False")
    => UnlockSleep + w_elapsed >= 5 * 60

-----------------------------------------------------------------------------
\* C30: in FASTBOOT the engine first probes with fastboot getvar product.
\* When the probe succeeds no "adb reboot bootloader" is issued in the run.
\* "adb reboot bootloader" is issued at most once, through adb, in FASTBOOT,
\* right after a probe that returned without success, and the call after it
\* is the first poll of wait_for_fastboot; every flash command of such a run
\* comes after that wait has returned True.
IsProbe(c) == c.op = "getvar product" /\ c.state = "FASTBOOT"

C30_RebootOnlyWhenNotInFastboot ==
    /\ \A i \in Idx :
          /\ (IsProbe(cmds[i]) /\ cmds[i].success) => Count("reboot bootloader") = 0
          /\ cmds[i].op = "reboot bootloader"
             => /\ cmds[i].verb = "adb"
                /\ cmds[i].state = "FASTBOOT"
                /\ Count("reboot bootloader") = 1
                /\ i > 1
                /\ IsProbe(cmds[i - 1]) /\ ~cmds[i - 1].success /\ ~cmds[i - 1].raised
                /\ i < Len(cmds) => cmds[i + 1].op = "devices"
                /\ \A n \in 1..Len(waits) : waits[n].site = "enter" => waits[n].at > i
    /\ (cmds # <<>> /\ IsFlash(cmds[Last]) /\ Count("reboot bootloader") = 1)
       => \E n \in 1..Len(waits) :
             waits[n].site = "enter" /\ waits[n].ok /\ waits[n].at < Last

C30_Witness ==
    /\ Finished
    /\ result = Success
    /\ Count("reboot bootloader") = 1
    /\ \E n \in 1..Len(waits) : waits[n].site = "enter" /\ waits[n].ok

-----------------------------------------------------------------------------
\* C26: a step in which the build manager or a transport call raises an
\* exception that no inner handler swallows ends the run with the result
\* success = False, final_state = ERROR and the error text, and adds exactly
\* the ERROR event to the events emitted so far; every finished run holds a
\* result with the fields success, error and final_state.
BuildManagerRaises == pc = "resolve" /\ ~bundle_exists /\ pc' # pc

\* the except: of the polling loop in _enter_fastbootd
SwallowedByPollLoop == pc = "poll_userspace" /\ tick < MaxTicks

TransportCallRaises ==
    /\ Len(cmds') = Len(cmds) + 1
    /\ cmds'[Len(cmds')].raised
    /\ ~SwallowedByPollLoop

StructuredResult(r) ==
    /\ {"success", "error", "final_state"} \subseteq DOMAIN r
    /\ r.success \in BOOLEAN
    /\ r.final_state \in FlashState
    /\ r.success <=> r.error = "None"

-----------------------------------------------------------------------------
\* C28: every FlashProgress value emitted during a run carries a
\* progress_percent that is an integer from 0 to 100, whatever the number of
\* core partitions and of super images of the bundle.
C28_PercentInRange ==
    \A n \in 1..Len(progress_log) : progress_log[n].progress_percent \in 0..100

C28_Witness ==
    /\ Finished
    /\ result = Success
    /\ Len(super_images) >= 2
    /\ core_flash_count = core_total
    /\ core_total >= 2
    /\ \E n \in 1..Len(progress_log) :
          /\ progress_log[n].partition = "super"
          /\ progress_log[n].progress_percent = SuperPercent(Len(super_images), Len(super_images))
    /\ \E n \in 1..Len(progress_log) :
          /\ progress_log[n].state = "FASTBOOT_FLASH"
          /\ progress_log[n].progress_percent = CorePercent(core_total, core_total)

-----------------------------------------------------------------------------
\* C23: for each flash command that has been issued and has returned, a
\* FlashProgress value naming its partition was emitted before the command
\* was dispatched and another one was emitted after it returned (before the
\* next transport call, or before the end of the run).
EventsBefore(i) == 1..cmds[i].events

EventsAfter(i) ==
    (cmds[i].events + 1)..(IF i < Last THEN cmds[i + 1].events ELSE Len(progress_log))

Names(n, part) == progress_log[n].partition = part

C23_EventBeforeAndAfterEachFlash ==
    \A i \in Idx :
        (IsFlash(cmds[i]) /\ (i < Last \/ Finished))
        => /\ \E n \in EventsBefore(i) : Names(n, cmds[i].part)
           /\ \E n \in EventsAfter(i) : Names(n, cmds[i].part)

-----------------------------------------------------------------------------
\* C21: wait_for_fastboot returns True only when the listing it has just
\* read lists the pinned serial in bootloader mode or, with no serial
\* pinned, lists exactly one device.
C21_TrueOnlyForTheTarget ==
    (w_call.fn = "wait_for_fastboot" /\ w_ret = "True")
    => /\ w_last.cmd = "devices"
       /\ w_last.result.success
       /\ IF w_serial
          THEN <<"serial", "fastboot">> \in Listed(w_last.result.out)
          ELSE Cardinality(Listed(w_last.result.out)) = 1

-----------------------------------------------------------------------------
\* C27: the file find_partition_files returns for bootloader and for radio
\* is the lexicographically first file of the directory whose name is
\* <partition>-<codename>-*.img for the requested codename; a file named for
\* another codename is never returned.
RECURSIVE StartsWith(_, _)
StartsWith(name, prefix) ==
    \/ prefix = <<>>
    \/ /\ name # <<>>
       /\ Head(name) = Head(prefix)
       /\ StartsWith(Tail(name), Tail(prefix))

\* the files matching <part>-<codename>-*.img
ScopedGlob(b, part) == {f \in glob(b, part) : StartsWith(f.wild, codename \o <<45>>)}

C27_CodenameScopedGlob ==
    pc = "found"
    => \A part \in {"bootloader", "radio"} :
          /\ part \in DOMAIN partition_files <=> ScopedGlob(bundle, part) # {}
          /\ part \in DOMAIN partition_files
             => partition_files[part] = sorted(ScopedGlob(bundle, part))[1]

-----------------------------------------------------------------------------
\* C29: the CLI process exits with code 0 exactly when execute_flash
\* returned success = True, and with a code other than 0 for every result
\* that reports a failure.
C29_ExitCodeReportsSuccess ==
    /\ pc # "exited" => exit_code = "none"
    /\ pc = "exited"
       => /\ exit_code = 0 <=> result.success
          /\ ~result.success => exit_code \in Nat \ {0}

C29_Witness ==
    /\ pc = "exited"
    /\ exit_code # 0
    /\ result.final_state = "ERROR"
    /\ \E i \in Idx : IsFlash(cmds[i]) /\ ~cmds[i].success

C29_WitnessSuccess ==
    /\ pc = "exited"
    /\ exit_code = 0
    /\ result = Success

-----------------------------------------------------------------------------
\* C22: a job started for a device serial keeps that serial as its target,
\* and every command it issues to a device (the device listings apart) is
\* addressed to that serial.
C22_OneTargetForTheJob ==
    (flasher.pc # "none" /\ flasher.args_device_serial # "None")
    => /\ flasher.device_serial = flasher.args_device_serial
       /\ \A i \in 1..Len(f_cmds) :
             f_cmds[i].op # "devices" => f_cmds[i].target = flasher.args_device_serial

-----------------------------------------------------------------------------
\* C24: a stop request reaches the running flash script only between two
\* flash commands, never while one is in flight, and no flash command that
\* was dispatched ends interrupted.
C24_StopOnlyBetweenFlashes ==
    /\ \A n \in 1..Len(stops) : ~stops[n].in_flight
    /\ proc.state # "none"
       => \A n \in 1..Len(proc.outcomes) : proc.outcomes[n] # "interrupted"

-----------------------------------------------------------------------------
\* C25: with two jobs for two serials, a step of one job's thread changes
\* nothing of the other job's engine, and when the other thread runs again
\* it finds the engine exactly as it left it; so under every interleaving
\* each job's states, commands and result are those of its own run: the
\* state of every command it issued and its current state are those of its
\* own FlashProgress events.
OwnHistory(inst) ==
    /\ inst.current_state =
          IF inst.progress_log = <<>> THEN "INIT"
          ELSE inst.progress_log[Len(inst.progress_log)].state
    /\ \A i \in 1..Len(inst.cmds) :
          /\ inst.cmds[i].events \in 1..Len(inst.progress_log)
          /\ inst.cmds[i].state = inst.progress_log[inst.cmds[i].events].state

-----------------------------------------------------------------------------
\* C31 as stated: 'flashing lock' is issued at most once, only with
\* lock_bootloader, only after every file of the plan (firmware, core
\* partitions, every super image) has been flashed with success, and never
\* in a run that ends in ERROR.
PlanFiles ==
    {partition_files[p] : p \in DOMAIN partition_files \ {"super"}}
    \cup (IF "super" \in DOMAIN partition_files
          THEN SeqRange(partition_files["super"]) ELSE {})

LockIssued == {i \in Idx : cmds[i].op = "flashing lock"}

LockAfterFullFlash ==
    \A i \in LockIssued :
        /\ lock_bootloader
        /\ Cardinality(LockIssued) = 1
        /\ cmds[i].verb = "fastbootd"
        /\ cmds[i].state = "FINAL"
        /\ \A j \in 1..(i - 1) : IsFlash(cmds[j]) => cmds[j].success
        /\ \A f \in PlanFiles : \E j \in 1..(i - 1) : IsFlash(cmds[j]) /\ cmds[j].file = f
        /\ \A j \in (i + 1)..Len(cmds) : ~IsFlash(cmds[j])

-----------------------------------------------------------------------------
\* C32: a poll of wait_for_fastboot whose listing shows the pinned serial in
\* fastboot mode ends the wait with True whatever the return code of
\* fastboot devices was; a command with a return code other than 0 is
\* reported with success = False by _run_command.
C32_ListingDecidesPresence ==
    /\ (w_call.fn = "wait_for_fastboot" /\ w_serial /\ w_last.cmd = "devices"
        /\ <<"serial", "fastboot">> \in Listed(w_last.result.out))
       => w_ret = "True"
    /\ \A p \in subprocess_run(DevicesOut) :
          (p.kind = "completed" /\ p.returncode # 0) => ~_run_command(p).success

-----------------------------------------------------------------------------
\* C33: the core partitions that are present are flashed in the order boot,
\* init_boot, dtbo, vendor_kernel_boot, pvmfw, vendor_boot, vbmeta, each from
\* a file of the bundle; an absent one is skipped and the run goes on; no
\* core partition is written after vbmeta, and every core flash comes before
\* the reboot into fastbootd.
ClaimedCoreOrder ==
    <<"boot", "init_boot", "dtbo", "vendor_kernel_boot", "pvmfw", "vendor_boot", "vbmeta">>

ClaimedPos ==
    [p \in SeqRange(ClaimedCoreOrder) |->
        CHOOSE i \in 1..Len(ClaimedCoreOrder) : ClaimedCoreOrder[i] = p]

CoreFlashes == {i \in Idx : IsCoreFlash(cmds[i])}

C33_CoreOrder ==
    /\ (cmds # <<>> /\ IsCoreFlash(cmds[Last]))
       => /\ cmds[Last].file = FixedFile(cmds[Last].part)
          /\ cmds[Last].file \in bundle
          /\ \A i \in Before :
                /\ cmds[i].op # "reboot fastboot"
                /\ IsCoreFlash(cmds[i])
                   => /\ cmds[i].part # "vbmeta"
                      /\ ClaimedPos[cmds[i].part] < ClaimedPos[cmds[Last].part]
    /\ (cmds # <<>> /\ cmds[Last].op = "reboot fastboot")
       => \A p \in SeqRange(ClaimedCoreOrder) :
             FixedFile(p) \in bundle
             <=> \E i \in Before : /\ IsCoreFlash(cmds[i])
                                   /\ cmds[i].part = p
                                   /\ cmds[i].success

C33_Witness ==
    /\ Finished
    /\ result = Success
    /\ Cardinality(CoreFlashes) = 4
    /\ \E i \in CoreFlashes : cmds[i].part = "vendor_boot" /\ cmds[i + 1].part = "vbmeta"
    /\ Count("reboot fastboot") = 1

-----------------------------------------------------------------------------
\* C34: the result execute_flash returns has success = True exactly when
\* final_state is DONE, has success = False exactly when final_state is ERROR
\* and an error text that is not empty is present, reports bundle_path only
\* on success, and has no final_state other than DONE and ERROR.
ErrorPresent(r) == r.error \notin {"None", ""}

C34_ResultConsistent ==
    Finished
    => /\ result.final_state \in {"DONE", "ERROR"}
       /\ result.success <=> result.final_state = "DONE"
       /\ ~result.success <=> (result.final_state = "ERROR" /\ ErrorPresent(result))
       /\ result.bundle_path # "None" => result.success

-----------------------------------------------------------------------------
\* C35: when execute_flash has returned, current_state and the state of the
\* last FlashProgress value emitted equal the final_state of the result; a
\* run that returned ERROR has emitted a FlashProgress value with state ERROR.
C35_StateMatchesResult ==
    Finished
    => /\ current_state = result.final_state
       /\ progress_log # <<>>
       /\ progress_log[Len(progress_log)].state = result.final_state
       /\ result.final_state = "ERROR"
          => \E n \in 1..Len(progress_log) : progress_log[n].state = "ERROR"

-----------------------------------------------------------------------------
\* C36: over one run the progress_percent of the FlashProgress values emitted
\* one after the other never decreases, and the value emitted for the DONE
\* state carries 100.
C36_ProgressMonotone ==
    /\ \A n \in 1..(Len(progress_log) - 1) :
          progress_log[n].progress_percent <= progress_log[n + 1].progress_percent
    /\ \A n \in 1..Len(progress_log) :
          progress_log[n].state = "DONE" => progress_log[n].progress_percent = 100

-----------------------------------------------------------------------------
\* C37: a job status of completed, failed or cancelled is never replaced by
\* another status, whatever the order in which the steps of _run_flash, of
\* the flash script and of cancel_flash_job are taken.
TerminalStatus == {"completed", "failed", "cancelled"}

C37_TerminalStatusStable ==
    [][job.status \in TerminalStatus => job'.status = job.status]_vars

-----------------------------------------------------------------------------
\* C38: the subscriber of a job's log stream is sent the lines of
\* job["logs"] in the order of their appends, each once and none left out,
\* and when the close event has been sent it has been sent every line that
\* is appended to job["logs"].
C38_StreamDeliversEveryLine ==
    stream.pc # "none"
    => /\ Len(stream.received) <= Len(job.logs)
       /\ stream.received = SubSeq(job.logs, 1, Len(stream.received))
       /\ stream.pc = "closed" => stream.received = job.logs

====
